---- MODULE Spec2Model ----
(***************************************************************************)
(* A model of the azuki TAC intermediate representation: the instruction   *)
(* and basic-block arenas of TacFunc (crates/tac/src/lib.rs), the cursor   *)
(* API of FuncEditor (crates/tac/src/builder/func_editor.rs) and the       *)
(* statement lowering of FuncCompiler (crates/tacgen/src/lib.rs).          *)
(***************************************************************************)
EXTENDS Integers, Sequences, FiniteSets, TLC

\* ------------------------------------------------------------------------
\* Bounds of the model
\* ------------------------------------------------------------------------
\* Every specification explores the functions up to a size: the number of
\* blocks, plus the instructions allocated, plus the branches.
MaxChainSize == 4
MaxSplitSize == 5
MaxCursorSize == 5
MaxEditorSize == 3
MaxBranchSize == 5
MaxLinkSize == 4
MaxEndsSize == 4
MaxConnectSize == 4
\* the size of the function in which an expression is lowered
MaxExprSize == 3
MaxFrameSize == 5
\* the lowering starts a statement while the function has fewer blocks than this
MaxLowerBB == 5
MaxIfReturnBB == 6
MaxSSABlocks == 3
MaxSSAEdges == 3
MaxSSAInsts == 3
\* the loop lowering: statements before the loop and in its body, instructions
MaxLoopStmts == 2
MaxLoopInsts == 6

\* Option::None of an InstId / BBId slot, and the null handle BBId::default()
None == 0
NullBB == 0

VARIABLES
    instructions_arena,  \* TacFunc.instructions_arena: live InstId -> Tac
    inst_slots,          \* number of handles the instruction arena has issued
    basic_block_arena,   \* TacFunc.basic_block_arena: live BBId -> BasicBlock
    graph_edges,         \* edge vector of the block graph: index -> <<src, dst>>
    graph_out,           \* outgoing edge list of every block, newest first
    graph_in,            \* incoming edge list of every block, newest first
    current_bb,          \* FuncEditor.current_bb
    current_idx,         \* FuncEditor.current_idx
    sealed,              \* FuncBuilder: the blocks marked sealed
    filled,              \* FuncBuilder: the blocks marked filled
    stack,               \* FuncCompiler: the visitor calls in progress, innermost last
    kinds,               \* Tac.inst.kind of the instructions the FuncBuilder emits
    defs,                \* FuncBuilder: <<variable, block>> -> current definition
    pending,             \* FuncBuilder: <<block, variable>> -> incomplete Phi
    last                 \* the last call: its name, arguments and result

vars == <<instructions_arena, inst_slots, basic_block_arena, graph_edges,
          graph_out, graph_in, current_bb, current_idx, sealed, filled, stack,
          kinds, defs, pending, last>>

\* The whole program state as one record; every operation maps St to St.
St == [ia |-> instructions_arena, n |-> inst_slots, ba |-> basic_block_arena,
       edges |-> graph_edges, out |-> graph_out, in |-> graph_in,
       cbb |-> current_bb, cidx |-> current_idx,
       sealed |-> sealed, filled |-> filled, stack |-> stack,
       kinds |-> kinds, defs |-> defs, pending |-> pending]

Commit(s) ==
    /\ instructions_arena' = s.ia
    /\ inst_slots' = s.n
    /\ basic_block_arena' = s.ba
    /\ graph_edges' = s.edges
    /\ graph_out' = s.out
    /\ graph_in' = s.in
    /\ current_bb' = s.cbb
    /\ current_idx' = s.cidx
    /\ sealed' = s.sealed
    /\ filled' = s.filled
    /\ stack' = s.stack
    /\ kinds' = s.kinds
    /\ defs' = s.defs
    /\ pending' = s.pending

\* What a call remembers of the state before it (for the round-trip claims).
NoSnap == [bb |-> 0, chain |-> <<>>, jumps |-> <<>>, wf |-> FALSE, rt |-> FALSE,
           front_chain |-> <<>>, front_jumps |-> <<>>,
           back_chain |-> <<>>, back_jumps |-> <<>>, both_wf |-> FALSE]

NoCall == [op |-> "none", ok |-> TRUE, a |-> 0, b |-> 0, r |-> 0, snap |-> NoSnap]
Call(op, ok, a, b, r) == [op |-> op, ok |-> ok, a |-> a, b |-> b, r |-> r, snap |-> NoSnap]

\* ------------------------------------------------------------------------
\* Records
\* ------------------------------------------------------------------------
\* Tac::independent(inst, bb)
independent(bb) == [bb |-> bb, prev |-> None, next |-> None]

\* BasicBlock::default()
BasicBlock_default == [head |-> None, tail |-> None, prev |-> None, next |-> None,
                       jumps |-> <<>>]

\* Branch: Return(_), Jump(t), CondJump { cond, target }
Return == [kind |-> "Return", target |-> NullBB]
\* Return(Some(value)) whose value is the result of an instruction
ReturnDest(v) == [kind |-> "Return", target |-> NullBB, val |-> v]
Jump(t) == [kind |-> "Jump", target |-> t]
CondJump(t) == [kind |-> "CondJump", target |-> t]

\* Branch::target_iter
target_iter(br) == IF br.kind = "Return" THEN <<>> ELSE <<br.target>>

Extend(f, k, v) == [x \in DOMAIN f \cup {k} |-> IF x = k THEN v ELSE f[x]]
Drop(f, k) == [x \in DOMAIN f \ {k} |-> f[x]]

\* ------------------------------------------------------------------------
\* The intrusive doubly linked list of the arena
\* ------------------------------------------------------------------------
attach_after(ia, after, x) ==
    LET nx == ia[after].next
        a1 == [ia EXCEPT ![x].prev = after, ![x].next = nx, ![after].next = x]
    IN  IF nx # None THEN [a1 EXCEPT ![nx].prev = x] ELSE a1

attach_before(ia, before, x) ==
    LET pv == ia[before].prev
        a1 == [ia EXCEPT ![x].next = before, ![x].prev = pv, ![before].prev = x]
    IN  IF pv # None THEN [a1 EXCEPT ![pv].next = x] ELSE a1

detach(ia, h) ==
    LET pv == ia[h].prev
        nx == ia[h].next
        a1 == IF pv # None THEN [ia EXCEPT ![pv].next = nx] ELSE ia
        a2 == IF nx # None THEN [a1 EXCEPT ![nx].prev = pv] ELSE a1
    IN  [a2 EXCEPT ![h].prev = None, ![h].next = None]

connect(ia, tail, head) == [ia EXCEPT ![tail].next = head, ![head].prev = tail]

is_freestanding(t) == t.prev = None /\ t.next = None /\ t.bb = NullBB

\* The instructions reached from i by following next (at most fuel of them).
RECURSIVE Walk(_, _, _)
Walk(ia, i, fuel) ==
    IF i = None \/ fuel = 0 \/ i \notin DOMAIN ia THEN <<>>
    ELSE <<i>> \o Walk(ia, ia[i].next, fuel - 1)

\* The instruction chain of block b, from its head.
Chain(s, b) == Walk(s.ia, s.ba[b].head, s.n + 1)

Range(q) == {q[k] : k \in DOMAIN q}

RECURSIVE SumLen(_, _)
SumLen(ba, bs) ==
    IF bs = {} THEN 0
    ELSE LET b == CHOOSE x \in bs : TRUE IN Len(ba[b].jumps) + SumLen(ba, bs \ {b})

TotalJumps(s) == SumLen(s.ba, DOMAIN s.ba)

\* the size of a function: its blocks, the instructions allocated, its branches
Size(s) == Cardinality(DOMAIN s.ba) + s.n + TotalJumps(s)

\* a call that allocates is explored while the function is smaller than ms
Room(ms) == Size(St) < ms /\ Len(graph_edges) < ms

\* ------------------------------------------------------------------------
\* TacFunc: instructions
\* ------------------------------------------------------------------------
inst_new(s) ==
    [s EXCEPT !.ia = Extend(s.ia, s.n + 1, independent(NullBB)), !.n = s.n + 1]

inst_exists(s, i) == i \in DOMAIN s.ia

bb_exists(s, b) == b \in DOMAIN s.ba

inst_set_after(s, after, inst) ==
    LET a1 == attach_after(s.ia, after, inst)
        bb == a1[after].bb
        a2 == [a1 EXCEPT ![inst].bb = bb]
    IN  [s EXCEPT !.ia = a2,
                  !.ba = IF s.ba[bb].tail = after
                         THEN [s.ba EXCEPT ![bb].tail = inst] ELSE s.ba]

inst_set_before(s, before, inst) ==
    LET a1 == attach_before(s.ia, before, inst)
        bb == a1[before].bb
        a2 == [a1 EXCEPT ![inst].bb = bb]
    IN  [s EXCEPT !.ia = a2,
                  !.ba = IF s.ba[bb].head = before
                         THEN [s.ba EXCEPT ![bb].head = inst] ELSE s.ba]

inst_append_in_bb(s, inst, bb) ==
    LET old_tail == s.ba[bb].tail
        s1 == [s EXCEPT !.ia[inst].bb = bb,
                        !.ba[bb].tail = inst,
                        !.ba[bb].head = IF @ = None THEN inst ELSE @]
    IN  IF old_tail # None THEN inst_set_after(s1, old_tail, inst) ELSE s1

inst_prepend_in_bb(s, inst, bb) ==
    LET old_head == s.ba[bb].head
        s1 == [s EXCEPT !.ia[inst].bb = bb,
                        !.ba[bb].head = inst,
                        !.ba[bb].tail = IF @ = None THEN inst ELSE @]
    IN  IF old_head # None THEN inst_set_before(s1, old_head, inst) ELSE s1

inst_detach(s, idx) ==
    [s EXCEPT !.ia = [detach(s.ia, idx) EXCEPT ![idx].bb = NullBB]]

\* the two debug_assert_eq! of inst_remove
inst_remove_asserts(s, idx) == s.ia[idx].next = None /\ s.ia[idx].prev = None

inst_remove(s, idx) == [s EXCEPT !.ia = Drop(s.ia, idx)]

inst_connect(s, tail, head) == [s EXCEPT !.ia = connect(s.ia, tail, head)]

\* ------------------------------------------------------------------------
\* TacFunc: basic blocks
\* ------------------------------------------------------------------------
NewBBId(s) == Cardinality(DOMAIN s.ba) + 1

bb_new(s) ==
    LET id == NewBBId(s)
    IN  [s EXCEPT !.ba = Extend(s.ba, id, BasicBlock_default),
                  !.out = Extend(s.out, id, <<>>),
                  !.in = Extend(s.in, id, <<>>)]

\* the loop "fix bb pointers": every instruction reached from it gets bb
RECURSIVE fix_bb_pointers(_, _, _, _)
fix_bb_pointers(ia, it, bb, fuel) ==
    IF it = None \/ fuel = 0 \/ it \notin DOMAIN ia THEN ia
    ELSE fix_bb_pointers([ia EXCEPT ![it].bb = bb], ia[it].next, bb, fuel - 1)

\* bb_split_after that moves the jumps whatever transfer_branches says
bb_split_after_always_transfers(s, inst, transfer_branches) ==
    LET after_head == s.ia[inst].next
        a1 == [s.ia EXCEPT ![inst].next = None]
        first_bb_id == a1[inst].bb
        orig_tail == s.ba[first_bb_id].tail
        jumps == s.ba[first_bb_id].jumps
        b1 == [s.ba EXCEPT ![first_bb_id].tail = None, ![first_bb_id].jumps = <<>>]
        s1 == bb_new([s EXCEPT !.ia = a1, !.ba = b1])
        new_bb_id == NewBBId(s)
        b2 == [s1.ba EXCEPT ![new_bb_id].tail = orig_tail,
                            ![new_bb_id].head = after_head,
                            ![new_bb_id].jumps = jumps]
    IN  [s1 EXCEPT !.ba = b2,
                   !.ia = fix_bb_pointers(a1, after_head, new_bb_id, s.n + 1)]

bb_split_after(s, inst, transfer_branches) ==
    LET after_head == s.ia[inst].next
        a1 == [s.ia EXCEPT ![inst].next = None]
        first_bb_id == a1[inst].bb
        orig_tail == s.ba[first_bb_id].tail
        jumps == IF transfer_branches THEN s.ba[first_bb_id].jumps ELSE <<>>
        b1 == [s.ba EXCEPT ![first_bb_id].tail = None,
                           ![first_bb_id].jumps = IF transfer_branches THEN <<>> ELSE @]
        s1 == bb_new([s EXCEPT !.ia = a1, !.ba = b1])
        new_bb_id == NewBBId(s)
        b2 == [s1.ba EXCEPT ![new_bb_id].tail = orig_tail,
                            ![new_bb_id].head = after_head,
                            ![new_bb_id].jumps = jumps]
    IN  [s1 EXCEPT !.ba = b2,
                   !.ia = fix_bb_pointers(a1, after_head, new_bb_id, s.n + 1)]

\* bb_connect without the loop that fixes the bb pointers
bb_connect_keeps_bb_pointers(s, front, back) ==
    LET back_jump == s.ba[back].jumps
        b1 == [s.ba EXCEPT ![back].jumps = <<>>, ![front].jumps = back_jump]
        front_tail == b1[front].tail
        back_head == b1[back].head
    IN  IF back_head # None
        THEN IF front_tail # None
             THEN inst_connect(
                      [s EXCEPT !.ba = [b1 EXCEPT ![front].tail = b1[back].tail,
                                                  ![back].tail = None,
                                                  ![back].head = None]],
                      front_tail, back_head)
             ELSE [s EXCEPT !.ba = [b1 EXCEPT ![front].head = b1[back].head,
                                              ![front].tail = b1[back].tail,
                                              ![back].head = None,
                                              ![back].tail = None]]
        ELSE [s EXCEPT !.ba = b1]

\* bb_connect that appends the jumps of back to the jumps of front
bb_connect_appends_jumps(s, front, back) ==
    LET back_jump == s.ba[back].jumps
        b1 == [s.ba EXCEPT ![back].jumps = <<>>, ![front].jumps = @ \o back_jump]
        front_tail == b1[front].tail
        back_head == b1[back].head
    IN  IF back_head # None
        THEN LET s2 == IF front_tail # None
                       THEN inst_connect(
                                [s EXCEPT !.ba = [b1 EXCEPT ![front].tail = b1[back].tail,
                                                            ![back].tail = None,
                                                            ![back].head = None]],
                                front_tail, back_head)
                       ELSE [s EXCEPT !.ba = [b1 EXCEPT ![front].head = b1[back].head,
                                                        ![front].tail = b1[back].tail,
                                                        ![back].head = None,
                                                        ![back].tail = None]]
             IN  [s2 EXCEPT !.ia = fix_bb_pointers(s2.ia, back_head, front, s.n + 1)]
        ELSE [s EXCEPT !.ba = b1]

bb_connect(s, front, back) ==
    LET back_jump == s.ba[back].jumps
        b1 == [s.ba EXCEPT ![back].jumps = <<>>, ![front].jumps = back_jump]
        front_tail == b1[front].tail
        back_head == b1[back].head
    IN  IF back_head # None
        THEN LET s2 == IF front_tail # None
                       THEN inst_connect(
                                [s EXCEPT !.ba = [b1 EXCEPT ![front].tail = b1[back].tail,
                                                            ![back].tail = None,
                                                            ![back].head = None]],
                                front_tail, back_head)
                       ELSE [s EXCEPT !.ba = [b1 EXCEPT ![front].head = b1[back].head,
                                                        ![front].tail = b1[back].tail,
                                                        ![back].head = None,
                                                        ![back].tail = None]]
             IN  [s2 EXCEPT !.ia = fix_bb_pointers(s2.ia, back_head, front, s.n + 1)]
        ELSE [s EXCEPT !.ba = b1]

\* the Vec<Branch> bb_connect returns: what mem::replace finds in front.jumps
\* after back.jumps was taken
bb_connect_branches(s, front, back) ==
    LET b1 == [s.ba EXCEPT ![back].jumps = <<>>]
    IN  b1[front].jumps

\* TacFunc::new: empty arenas
Init ==
    /\ instructions_arena = <<>>
    /\ inst_slots = 0
    /\ basic_block_arena = <<>>
    /\ graph_edges = <<>>
    /\ graph_out = <<>>
    /\ graph_in = <<>>
    /\ current_bb = NullBB
    /\ current_idx = None
    /\ sealed = {}
    /\ filled = {}
    /\ stack = <<>>
    /\ kinds = <<>>
    /\ defs = <<>>
    /\ pending = <<>>
    /\ last = NoCall

\* ------------------------------------------------------------------------
\* Calls on the instructions of a TacFunc
\* ------------------------------------------------------------------------
Do_bb_new(ms) ==
    /\ Room(ms)
    /\ Commit(bb_new(St))
    /\ last' = Call("bb_new", TRUE, 0, 0, NewBBId(St))

Do_inst_new(ms) ==
    /\ Room(ms)
    /\ Commit(inst_new(St))
    /\ last' = Call("inst_new", TRUE, 0, 0, inst_slots + 1)

\* an instruction that is placed in a live block (the anchor of set_after/before)
Placed(s, i) == inst_exists(s, i) /\ bb_exists(s, s.ia[i].bb)

Free(s, i) == inst_exists(s, i) /\ is_freestanding(s.ia[i])

\* An Option<InstId> that can be followed without a panic: None or a live handle.
Followable(s, o) == o = None \/ inst_exists(s, o)

\* The calls below panic on a handle that is not live; a call is taken only
\* when every handle it follows is live.
CanSetAfter(s, after, i) ==
    /\ i # after
    /\ inst_exists(s, after) /\ inst_exists(s, i)
    /\ Followable(s, s.ia[after].next)
    /\ bb_exists(s, s.ia[after].bb)

CanSetBefore(s, before, i) ==
    /\ i # before
    /\ inst_exists(s, before) /\ inst_exists(s, i)
    /\ Followable(s, s.ia[before].prev)
    /\ bb_exists(s, s.ia[before].bb)

CanAppend(s, i, b) ==
    /\ inst_exists(s, i) /\ bb_exists(s, b)
    /\ s.ba[b].tail # None => CanSetAfter(s, s.ba[b].tail, i)

CanPrepend(s, i, b) ==
    /\ inst_exists(s, i) /\ bb_exists(s, b)
    /\ s.ba[b].head # None => CanSetBefore(s, s.ba[b].head, i)

CanDetach(s, i) ==
    /\ inst_exists(s, i)
    /\ Followable(s, s.ia[i].prev) /\ Followable(s, s.ia[i].next)

Do_inst_append_in_bb ==
    \E i \in DOMAIN instructions_arena, b \in DOMAIN basic_block_arena :
        /\ Free(St, i)
        /\ CanAppend(St, i, b)
        /\ Commit(inst_append_in_bb(St, i, b))
        /\ last' = Call("inst_append_in_bb", TRUE, i, b, 0)

Do_inst_prepend_in_bb ==
    \E i \in DOMAIN instructions_arena, b \in DOMAIN basic_block_arena :
        /\ Free(St, i)
        /\ CanPrepend(St, i, b)
        /\ Commit(inst_prepend_in_bb(St, i, b))
        /\ last' = Call("inst_prepend_in_bb", TRUE, i, b, 0)

Do_inst_set_after ==
    \E after \in DOMAIN instructions_arena, i \in DOMAIN instructions_arena :
        /\ Placed(St, after)
        /\ Free(St, i)
        /\ CanSetAfter(St, after, i)
        /\ Commit(inst_set_after(St, after, i))
        /\ last' = Call("inst_set_after", TRUE, after, i, 0)

Do_inst_set_before ==
    \E before \in DOMAIN instructions_arena, i \in DOMAIN instructions_arena :
        /\ Placed(St, before)
        /\ Free(St, i)
        /\ CanSetBefore(St, before, i)
        /\ Commit(inst_set_before(St, before, i))
        /\ last' = Call("inst_set_before", TRUE, before, i, 0)

Do_inst_detach ==
    \E i \in DOMAIN instructions_arena :
        /\ CanDetach(St, i)
        /\ Commit(inst_detach(St, i))
        /\ last' = Call("inst_detach", TRUE, i, 0, 0)

Do_inst_remove ==
    \E i \in DOMAIN instructions_arena :
        /\ inst_remove_asserts(St, i)
        /\ Commit(inst_remove(St, i))
        /\ last' = Call("inst_remove", TRUE, i, 0, 0)

\* ------------------------------------------------------------------------
\* The block graph (petgraph DiGraph<BasicBlock, ()>): an edge vector and, per
\* node, the linked lists of its outgoing and incoming edges
\* ------------------------------------------------------------------------
Without(q, x) == SelectSeq(q, LAMBDA y : y # x)
Renamed(q, x, y) == [k \in DOMAIN q |-> IF q[k] = x THEN y ELSE q[k]]

\* Graph::add_edge: the new edge gets the next index and heads both lists
add_edge(s, a, b) ==
    LET idx == Len(s.edges) + 1
        o1 == [s.out EXCEPT ![a] = <<idx>> \o @]
    IN  [s EXCEPT !.edges = Append(s.edges, <<a, b>>),
                  !.out = o1,
                  !.in = [s.in EXCEPT ![b] = <<idx>> \o @]]

\* Graph::remove_edge: unlink e, then swap_remove it from the edge vector; the
\* edge that had the last index takes index e.  None for an index out of range.
remove_edge(s, e) ==
    IF e \notin DOMAIN s.edges THEN s
    ELSE LET lst == Len(s.edges)
             ed == s.edges[e]
             o1 == [s.out EXCEPT ![ed[1]] = Without(@, e)]
             i1 == [s.in EXCEPT ![ed[2]] = Without(@, e)]
             sw == s.edges[lst]
             cut == SubSeq(s.edges, 1, lst - 1)
         IN  IF e = lst
             THEN [s EXCEPT !.edges = cut, !.out = o1, !.in = i1]
             ELSE [s EXCEPT !.edges = [cut EXCEPT ![e] = sw],
                            !.out = [o1 EXCEPT ![sw[1]] = Renamed(@, lst, e)],
                            !.in = [i1 EXCEPT ![sw[2]] = Renamed(@, lst, e)]]

RECURSIVE remove_edges(_, _)
remove_edges(s, es) ==
    IF es = <<>> THEN s ELSE remove_edges(remove_edge(s, Head(es)), Tail(es))

RECURSIVE add_edges(_, _, _)
add_edges(s, a, targets) ==
    IF targets = <<>> THEN s
    ELSE add_edges(add_edge(s, a, Head(targets)), a, Tail(targets))

\* the targets of a jumps list, in order
RECURSIVE targets_of(_)
targets_of(jumps) ==
    IF jumps = <<>> THEN <<>> ELSE target_iter(Head(jumps)) \o targets_of(Tail(jumps))

succ_edge_of_bb(s, bb_id) == IF bb_id \in DOMAIN s.out THEN s.out[bb_id] ELSE <<>>

pred_edge_of_bb(s, bb_id) == IF bb_id \in DOMAIN s.in THEN s.in[bb_id] ELSE <<>>

succ_of_bb(s, bb_id) ==
    LET es == succ_edge_of_bb(s, bb_id) IN [k \in DOMAIN es |-> s.edges[es[k]][2]]

pred_of_bb(s, bb_id) ==
    LET es == pred_edge_of_bb(s, bb_id) IN [k \in DOMAIN es |-> s.edges[es[k]][1]]

\* ------------------------------------------------------------------------
\* FuncEditor
\* ------------------------------------------------------------------------
Ok(s, v) == [s |-> s, ok |-> TRUE, v |-> v]
Err(s, e) == [s |-> s, ok |-> FALSE, v |-> e]

\* the ? operator: the error of r (or its panic) is the result, otherwise the
\* call goes on with the value of r
Then(r, F(_)) == IF ~r.ok THEN r ELSE F(r)

starting_block == 1

\* FuncEditor::new: the cursor is put on the head of the starting block
new(s) == [s EXCEPT !.cbb = starting_block, !.cidx = s.ba[starting_block].head]

new_bb(s) == bb_new(s)

\* set_current_bb that leaves the cursor on the head of the block
set_current_bb_sets_head(s, bb_id) ==
    IF ~bb_exists(s, bb_id) THEN Err(s, "NoSuchBB")
    ELSE LET bb == s.ba[bb_id]
             same_pos == bb_id = s.cbb /\ bb.tail = s.cidx
         IN  Ok([s EXCEPT !.cbb = bb_id, !.cidx = bb.head], same_pos)

set_current_bb(s, bb_id) ==
    IF ~bb_exists(s, bb_id) THEN Err(s, "NoSuchBB")
    ELSE LET bb == s.ba[bb_id]
             same_pos == bb_id = s.cbb /\ bb.tail = s.cidx
         IN  Ok([s EXCEPT !.cbb = bb_id, !.cidx = bb.tail], same_pos)

set_current_bb_start(s, bb_id) ==
    IF ~bb_exists(s, bb_id) THEN Err(s, "NoSuchBB")
    ELSE LET bb == s.ba[bb_id]
             same_pos == bb_id = s.cbb /\ bb.head = s.cidx
         IN  Ok([s EXCEPT !.cbb = bb_id, !.cidx = bb.head], same_pos)

set_position_at_instruction(s, inst_idx) ==
    IF ~inst_exists(s, inst_idx) THEN Err(s, "NoSuchInst")
    ELSE LET bb == s.ia[inst_idx].bb
             same_pos == bb = s.cbb /\ inst_idx = s.cidx
         IN  Ok([s EXCEPT !.cbb = bb, !.cidx = inst_idx], same_pos)

\* TacFunc::tac_new(inst, bb): a new instruction that already names its block
tac_new(s, bb) ==
    [s EXCEPT !.ia = Extend(s.ia, s.n + 1, independent(bb)), !.n = s.n + 1]

tac_set_after(s, after, idx) == [s EXCEPT !.ia = attach_after(s.ia, after, idx)]

tac_set_before(s, before, idx) == [s EXCEPT !.ia = attach_before(s.ia, before, idx)]

insert_after_current_place(s) ==
    LET idx == s.n + 1
        s1 == tac_new(s, s.cbb)
        s2 == IF s.cidx # None
              THEN LET s3 == tac_set_after(s1, s.cidx, idx)
                   IN  IF s3.ba[s.cbb].tail = s.cidx
                       THEN [s3 EXCEPT !.ba[s.cbb].tail = idx] ELSE s3
              ELSE [s1 EXCEPT !.ba[s.cbb].head = idx, !.ba[s.cbb].tail = idx]
    IN  Ok([s2 EXCEPT !.cidx = idx], idx)

\* insert_before_current_place without the reset of the head pointer
insert_before_current_place_keeps_head(s) ==
    LET idx == s.n + 1
        s1 == tac_new(s, s.cbb)
        s2 == IF s.cidx # None
              THEN tac_set_before(s1, s.cidx, idx)
              ELSE [s1 EXCEPT !.ba[s.cbb].head = idx, !.ba[s.cbb].tail = idx]
    IN  Ok([s2 EXCEPT !.cidx = idx], idx)

insert_before_current_place(s) ==
    LET idx == s.n + 1
        s1 == tac_new(s, s.cbb)
        s2 == IF s.cidx # None
              THEN LET s3 == tac_set_before(s1, s.cidx, idx)
                   IN  IF s3.ba[s.cbb].head = s.cidx
                       THEN [s3 EXCEPT !.ba[s.cbb].head = idx] ELSE s3
              ELSE [s1 EXCEPT !.ba[s.cbb].head = idx, !.ba[s.cbb].tail = idx]
    IN  Ok([s2 EXCEPT !.cidx = idx], idx)

\* insert_at_end_of that restores the cursor without looking at same_pos
insert_at_end_of_always_restores(s, bb_id) ==
    LET r1 == set_current_bb(s, bb_id)
    IN  IF ~r1.ok THEN r1
        ELSE LET r2 == insert_after_current_place(r1.s)
             IN  Ok([r2.s EXCEPT !.cbb = s.cbb, !.cidx = s.cidx], r2.v)

\* insert_at_end_of that allocates the instruction before it looks up the block
insert_at_end_of_allocates_first(s, bb_id) ==
    LET s0 == tac_new(s, bb_id)
        r1 == set_current_bb(s0, bb_id)
    IN  IF ~r1.ok THEN r1
        ELSE LET r2 == insert_after_current_place(set_current_bb(s, bb_id).s)
             IN  IF ~r1.v
                 THEN Ok([r2.s EXCEPT !.cbb = s.cbb, !.cidx = s.cidx], r2.v)
                 ELSE r2

insert_at_end_of(s, bb_id) ==
    LET curr_bb == s.cbb
        curr_idx == s.cidx
        r1 == set_current_bb(s, bb_id)
    IN  IF ~r1.ok THEN r1
        ELSE LET r2 == insert_after_current_place(r1.s)
             IN  IF ~r1.v
                 THEN Ok([r2.s EXCEPT !.cbb = curr_bb, !.cidx = curr_idx], r2.v)
                 ELSE r2

\* insert_at_start_of that leaves the cursor on the inserted instruction
insert_at_start_of_never_restores(s, bb_id) ==
    LET r1 == set_current_bb_start(s, bb_id)
    IN  IF ~r1.ok THEN r1 ELSE insert_before_current_place(r1.s)

insert_at_start_of(s, bb_id) ==
    LET curr_bb == s.cbb
        curr_idx == s.cidx
        r1 == set_current_bb_start(s, bb_id)
    IN  IF ~r1.ok THEN r1
        ELSE LET r2 == insert_before_current_place(r1.s)
             IN  IF ~r1.v
                 THEN Ok([r2.s EXCEPT !.cbb = curr_bb, !.cidx = curr_idx], r2.v)
                 ELSE r2

insert_param(s, bb_id) == insert_at_start_of(s, bb_id)

add_branch(s, inst, bb_id) ==
    IF ~bb_exists(s, bb_id) THEN Err(s, "NoSuchBB")
    ELSE LET s1 == add_edges(s, bb_id, target_iter(inst))
         IN  Ok([s1 EXCEPT !.ba[bb_id].jumps = Append(@, inst)], 0)

\* The closure given to modify_branch, as data: what it does to the jumps list.
apply_closure(f, jumps) ==
    CASE f.kind = "clear" -> <<>>
      [] f.kind = "pop" -> IF jumps = <<>> THEN <<>> ELSE SubSeq(jumps, 1, Len(jumps) - 1)
      [] f.kind = "push" -> Append(jumps, f.br)
      [] f.kind = "retarget" -> [k \in DOMAIN jumps |->
                                    IF jumps[k].kind = "Return" THEN jumps[k]
                                    ELSE [jumps[k] EXCEPT !.target = f.br.target]]
      [] OTHER -> jumps

\* a modify_branch that removes the edges that come into the block
modify_branch_removes_pred_edges(s, bb_id, f) ==
    LET s1 == remove_edges(s, pred_edge_of_bb(s, bb_id))
    IN  IF ~bb_exists(s1, bb_id) THEN Err(s1, "NoSuchBB")
        ELSE LET s2 == [s1 EXCEPT !.ba[bb_id].jumps = apply_closure(f, @)]
             IN  Ok(add_edges(s2, bb_id, targets_of(s2.ba[bb_id].jumps)), 0)

modify_branch(s, bb_id, f) ==
    LET s1 == remove_edges(s, succ_edge_of_bb(s, bb_id))
    IN  IF ~bb_exists(s1, bb_id) THEN Err(s1, "NoSuchBB")
        ELSE LET s2 == [s1 EXCEPT !.ba[bb_id].jumps = apply_closure(f, @)]
             IN  Ok(add_edges(s2, bb_id, targets_of(s2.ba[bb_id].jumps)), 0)

NextInst ==
    \/ Do_bb_new(MaxChainSize)
    \/ Do_inst_new(MaxChainSize)
    \/ Do_inst_append_in_bb
    \/ Do_inst_prepend_in_bb
    \/ Do_inst_set_after
    \/ Do_inst_set_before
    \/ Do_inst_detach
    \/ Do_inst_remove

SpecInst == Init /\ [][NextInst]_vars

\* ------------------------------------------------------------------------
\* Calls on a FuncEditor
\* ------------------------------------------------------------------------
\* TacFunc::new of the editor's TacFunc adds the starting block; FuncEditor::new
InitEditor ==
    /\ instructions_arena = <<>>
    /\ inst_slots = 0
    /\ basic_block_arena = starting_block :> BasicBlock_default
    /\ graph_edges = <<>>
    /\ graph_out = starting_block :> <<>>
    /\ graph_in = starting_block :> <<>>
    /\ current_bb = starting_block
    /\ current_idx = None
    /\ sealed = {}
    /\ filled = {}
    /\ stack = <<>>
    /\ kinds = <<>>
    /\ defs = <<>>
    /\ pending = <<>>
    /\ last = NoCall

\* block and instruction handles a caller may pass: the live ones and one that
\* is unknown to the function
BBArgs == DOMAIN basic_block_arena \cup {NewBBId(St)}
InstArgs == DOMAIN instructions_arena \cup {inst_slots + 1}


Branches(s) == {Return} \cup {Jump(b) : b \in DOMAIN s.ba}
                        \cup {CondJump(b) : b \in DOMAIN s.ba}

Closures(s) == {[kind |-> "clear", br |-> Return], [kind |-> "pop", br |-> Return],
                [kind |-> "keep", br |-> Return]}
               \cup {[kind |-> "push", br |-> br] : br \in Branches(s)}

Result(op, a, b, r) ==
    /\ Commit(r.s)
    /\ last' = Call(op, r.ok, a, b, r.v)

Do_new ==
    /\ Commit(new(St))
    /\ last' = Call("new", TRUE, 0, 0, 0)

Do_new_bb(ms) ==
    /\ Room(ms)
    /\ Commit(new_bb(St))
    /\ last' = Call("new_bb", TRUE, 0, 0, NewBBId(St))

\* 1 when the call before was the same call with the same argument, and
\* succeeded
Again(op, a) == IF last.op = op /\ last.ok /\ last.a = a THEN 1 ELSE 0

Do_set_current_bb ==
    \E b \in BBArgs :
        Result("set_current_bb", b, Again("set_current_bb", b), set_current_bb(St, b))

Do_set_current_bb_start ==
    \E b \in BBArgs :
        Result("set_current_bb_start", b, Again("set_current_bb_start", b),
               set_current_bb_start(St, b))

Do_set_position_at_instruction ==
    \E i \in InstArgs :
        Result("set_position_at_instruction", i, 0, set_position_at_instruction(St, i))

Do_insert_after_current_place(ms) ==
    /\ Room(ms)
    /\ Result("insert_after_current_place", 0, 0, insert_after_current_place(St))

Do_insert_before_current_place(ms) ==
    /\ Room(ms)
    /\ Result("insert_before_current_place", 0, 0, insert_before_current_place(St))

Do_insert_at_end_of(ms) ==
    \E b \in BBArgs :
        /\ bb_exists(St, b) => Room(ms)
        /\ Result("insert_at_end_of", b, 0, insert_at_end_of(St, b))

Do_insert_at_start_of(ms) ==
    \E b \in BBArgs :
        /\ bb_exists(St, b) => Room(ms)
        /\ Result("insert_at_start_of", b, 0, insert_at_start_of(St, b))

Do_insert_param(ms) ==
    \E b \in BBArgs :
        /\ bb_exists(St, b) => Room(ms)
        /\ Result("insert_param", b, 0, insert_param(St, b))

Do_add_branch(ms) ==
    \E b \in BBArgs, br \in Branches(St) :
        /\ bb_exists(St, b) => Room(ms)
        /\ Result("add_branch", b, 0, add_branch(St, br, b))

Do_modify_branch(ms) ==
    \E b \in BBArgs, f \in Closures(St) :
        /\ (bb_exists(St, b) /\ f.kind = "push") => Room(ms)
        /\ Result("modify_branch", b, 0, modify_branch(St, b, f))

NextEditor ==
    \/ Do_new
    \/ Do_new_bb(MaxEditorSize)
    \/ Do_set_current_bb
    \/ Do_set_current_bb_start
    \/ Do_set_position_at_instruction
    \/ Do_insert_after_current_place(MaxEditorSize)
    \/ Do_insert_before_current_place(MaxEditorSize)
    \/ Do_insert_at_end_of(MaxEditorSize)
    \/ Do_insert_at_start_of(MaxEditorSize)
    \/ Do_insert_param(MaxEditorSize)
    \/ Do_add_branch(MaxEditorSize)
    \/ Do_modify_branch(MaxEditorSize)

SpecEditor == InitEditor /\ [][NextEditor]_vars

\* the operations that move the cursor or insert at it
NextCursor ==
    \/ Do_new
    \/ Do_new_bb(MaxCursorSize)
    \/ Do_set_current_bb
    \/ Do_set_current_bb_start
    \/ Do_set_position_at_instruction
    \/ Do_insert_after_current_place(MaxCursorSize)
    \/ Do_insert_before_current_place(MaxCursorSize)
    \/ Do_insert_at_end_of(MaxCursorSize)
    \/ Do_insert_at_start_of(MaxCursorSize)
    \/ Do_insert_param(MaxCursorSize)

SpecCursor == InitEditor /\ [][NextCursor]_vars

NextBranch ==
    \/ Do_new_bb(MaxBranchSize)
    \/ Do_add_branch(MaxBranchSize)
    \/ Do_modify_branch(MaxBranchSize)

SpecBranch == InitEditor /\ [][NextBranch]_vars

\* ------------------------------------------------------------------------
\* Structural invariants of a block
\* ------------------------------------------------------------------------
\* the instructions that name b as their block
Members(s, b) == {i \in DOMAIN s.ia : s.ia[i].bb = b}

\* head/tail are None iff the block is empty; otherwise head.prev = None,
\* tail.next = None and the chain from head reaches tail
EndsOk(s, b) ==
    LET bb == s.ba[b]
        c == Chain(s, b)
    IN  /\ (bb.head = None) <=> (Members(s, b) = {})
        /\ (bb.tail = None) <=> (Members(s, b) = {})
        /\ bb.head # None =>
              /\ inst_exists(s, bb.head) /\ s.ia[bb.head].prev = None
              /\ bb.tail # None /\ inst_exists(s, bb.tail) /\ s.ia[bb.tail].next = None
              /\ c # <<>> /\ c[Len(c)] = bb.tail

\* every instruction of the chain names the block, and only they do
ChainOk(s, b) ==
    LET c == Chain(s, b)
    IN  /\ \A k \in DOMAIN c : s.ia[c[k]].bb = b
        /\ \A j, k \in DOMAIN c : j # k => c[j] # c[k]
        /\ Range(c) = Members(s, b)
        /\ \A k \in DOMAIN c : k > 1 => s.ia[c[k]].prev = c[k - 1]

WellFormed(s, b) == EndsOk(s, b) /\ ChainOk(s, b)

\* ------------------------------------------------------------------------
\* Calls that split and connect blocks
\* ------------------------------------------------------------------------
\* the loop `while let Some(inst) = it { ...; it = tac.next() }` comes to an
\* end: following next from `it` reaches None (a cycle keeps the call running
\* for ever, and no state follows it)
loop_ends(s, it) == Len(Walk(s.ia, it, s.n + 1)) <= s.n

Do_bb_split_after(ms) ==
    \E i \in DOMAIN instructions_arena, tr \in BOOLEAN :
        /\ Room(ms)
        /\ Placed(St, i)
        /\ loop_ends(St, St.ia[i].next)
        /\ Commit(bb_split_after(St, i, tr))
        /\ last' = [Call("bb_split_after", TRUE, i, IF tr THEN 1 ELSE 0, NewBBId(St))
                      EXCEPT !.snap = [NoSnap EXCEPT
                                       !.bb = St.ia[i].bb,
                                       !.chain = Chain(St, St.ia[i].bb),
                                       !.jumps = St.ba[St.ia[i].bb].jumps,
                                       !.wf = WellFormed(St, St.ia[i].bb)]]

\* bb_connect right after the split it undoes: the split had transfer_branches,
\* its instruction was not the last of a well-formed block, and the arguments
\* are the split block and the block the split returned
UndoesSplit(front, back) ==
    /\ last.op = "bb_split_after"
    /\ last.b = 1
    /\ last.snap.wf
    /\ last.snap.chain[Len(last.snap.chain)] # last.a
    /\ front = last.snap.bb
    /\ back = last.r

Do_bb_connect ==
    \E front \in DOMAIN basic_block_arena, back \in DOMAIN basic_block_arena :
        /\ front # back
        /\ (St.ba[front].tail # None /\ St.ba[back].head # None) =>
               /\ St.ba[front].tail # St.ba[back].head
               /\ inst_exists(St, St.ba[front].tail)
        /\ loop_ends(bb_connect(St, front, back), St.ba[back].head)
        /\ Commit(bb_connect(St, front, back))
        /\ last' = [Call("bb_connect", TRUE, front, back, bb_connect_branches(St, front, back))
                      EXCEPT !.snap = [(IF UndoesSplit(front, back)
                                        THEN [last.snap EXCEPT !.rt = TRUE]
                                        ELSE NoSnap) EXCEPT
                                       !.front_chain = Chain(St, front),
                                       !.front_jumps = St.ba[front].jumps,
                                       !.back_chain = Chain(St, back),
                                       !.back_jumps = St.ba[back].jumps,
                                       !.both_wf = WellFormed(St, front)
                                                   /\ WellFormed(St, back)]]

\* a caller pushes a branch on the public jumps list of a block
Do_jumps_push(ms) ==
    \E b \in DOMAIN basic_block_arena, br \in Branches(St) :
        /\ Room(ms)
        /\ Commit([St EXCEPT !.ba[b].jumps = Append(@, br)])
        /\ last' = Call("jumps_push", TRUE, b, 0, 0)

NextBB ==
    \/ Do_bb_new(MaxSplitSize)
    \/ Do_inst_new(MaxSplitSize)
    \/ Do_inst_append_in_bb
    \/ Do_jumps_push(MaxSplitSize)
    \/ Do_bb_split_after(MaxSplitSize)
    \/ Do_bb_connect

SpecBB == Init /\ [][NextBB]_vars

\* inst_new, append, prepend, set_after, set_before and detach only
NextChain ==
    \/ Do_bb_new(MaxChainSize)
    \/ Do_inst_new(MaxChainSize)
    \/ Do_inst_append_in_bb
    \/ Do_inst_prepend_in_bb
    \/ Do_inst_set_after
    \/ Do_inst_set_before
    \/ Do_inst_detach

SpecChain == Init /\ [][NextChain]_vars

\* ------------------------------------------------------------------------
\* Claims
\* ------------------------------------------------------------------------
\* C1: bb_split_after(inst, true) on a well-formed block B, inst not its last
\* instruction, followed by bb_connect(B, new_bb), restores B: the same
\* instruction order from B.head, the same jumps, every instruction's bb = B.
C1_RoundTrip ==
    (last.op = "bb_connect" /\ last.snap.rt) =>
        /\ Chain(St, last.a) = last.snap.chain
        /\ St.ba[last.a].jumps = last.snap.jumps
        /\ \A k \in DOMAIN last.snap.chain : St.ia[last.snap.chain[k]].bb = last.a

\* C2: after bb_split_after on a well-formed block, the original block and the
\* new block both have head/tail None iff empty, head.prev = None,
\* tail.next = None and the chain from head reaching tail; the original
\* block's tail is inst and the new block's head has no predecessor.
C2_SplitEnds ==
    (last.op = "bb_split_after" /\ last.snap.wf) =>
        /\ EndsOk(St, last.snap.bb)
        /\ EndsOk(St, last.r)
        /\ St.ba[last.snap.bb].tail = last.a
        /\ St.ba[last.r].head # None => St.ia[St.ba[last.r].head].prev = None

\* C3: after any sequence of inst_new, inst_append_in_bb, inst_prepend_in_bb,
\* inst_set_after, inst_set_before and inst_detach, every live instruction's bb
\* is null or names a live block whose chain contains it exactly once, and
\* every instruction in a block's chain has bb equal to that block.
C3_BbBackPointers ==
    /\ \A i \in DOMAIN instructions_arena :
          \/ instructions_arena[i].bb = NullBB
          \/ /\ bb_exists(St, instructions_arena[i].bb)
             /\ Cardinality({k \in DOMAIN Chain(St, instructions_arena[i].bb) :
                                Chain(St, instructions_arena[i].bb)[k] = i}) = 1
    /\ \A b \in DOMAIN basic_block_arena :
          \A k \in DOMAIN Chain(St, b) : instructions_arena[Chain(St, b)[k]].bb = b

\* C6: inst_remove succeeds only on an instruction linked into no block, so every
\* InstId stored in a block's head or tail or in an instruction's prev/next
\* refers to a live arena entry.
C6_NoDanglingInstId ==
    /\ \A b \in DOMAIN basic_block_arena :
          /\ Followable(St, basic_block_arena[b].head)
          /\ Followable(St, basic_block_arena[b].tail)
    /\ \A i \in DOMAIN instructions_arena :
          /\ Followable(St, instructions_arena[i].prev)
          /\ Followable(St, instructions_arena[i].next)

Count(q, x) == Cardinality({k \in DOMAIN q : q[k] = x})

\* C4: after any sequence of add_branch and modify_branch calls, for every block
\* the multiset succ_of_bb(bb) equals the multiset of the targets of bb.jumps.
C4_SuccMatchesJumps ==
    \A b \in DOMAIN basic_block_arena :
        \A t \in DOMAIN basic_block_arena :
            Count(succ_of_bb(St, b), t) = Count(targets_of(basic_block_arena[b].jumps), t)

\* C5: after every FuncEditor operation, current_idx, when present, names an
\* instruction whose bb is current_bb; when absent, current_bb is empty.
C5_CursorInvariant ==
    /\ bb_exists(St, current_bb)
    /\ current_idx # None =>
          /\ inst_exists(St, current_idx)
          /\ instructions_arena[current_idx].bb = current_bb
    /\ current_idx = None =>
          /\ Members(St, current_bb) = {}
          /\ basic_block_arena[current_bb].head = None
          /\ basic_block_arena[current_bb].tail = None

\* an insert_at_end_of into another block while the cursor sits in an empty one
C5_Witness ==
    /\ last.op = "insert_at_end_of" /\ last.ok
    /\ current_idx = None
    /\ last.a # current_bb
    /\ basic_block_arena[last.a].tail = last.r

\* the TacFunc and the cursor, without the record of the last call
func_and_cursor == <<instructions_arena, inst_slots, basic_block_arena, graph_edges,
                     graph_out, graph_in, current_bb, current_idx>>

\* C7: a FuncEditor operation that returns an error leaves the TacFunc and the
\* cursor as they were.
C7_FailedCallChangesNothing == [][(~last'.ok) => UNCHANGED func_and_cursor]_vars

\* modify_branch on an unknown block has failed in a function that holds
\* instructions, jumps and successor edges
C7_Witness ==
    /\ last.op = "modify_branch" /\ ~last.ok
    /\ ~bb_exists(St, last.a)
    /\ graph_edges # <<>>
    /\ TotalJumps(St) > 0
    /\ instructions_arena # <<>>

\* ------------------------------------------------------------------------
\* FuncBuilder: the sealed and the filled set
\* ------------------------------------------------------------------------
mark_sealed(s, bb) == [s EXCEPT !.sealed = @ \cup {bb}]

mark_filled(s, bb) == [s EXCEPT !.filled = @ \cup {bb}]

\* ------------------------------------------------------------------------
\* FuncCompiler: the visitor of the front-end driver.  A visitor call in
\* progress is a frame: the method, the source line it continues at, the AST
\* node it lowers and its local variables.  The AST is an input: the driver
\* learns each statement when the block visitor reaches it.
\* ------------------------------------------------------------------------
\* the expressions the visitor lowers without a todo!(): an integer or char
\* literal, and a binary operation of two literals
Exprs == {"Literal", "Binary"}

\* a statement node: its kind and its expression (the condition, or the
\* returned value: "None" for a return without a value)
Stmt(kind, expr) == [kind |-> kind, expr |-> expr]

Stmts == {Stmt("return", e) : e \in Exprs \cup {"None"}}
         \cup {Stmt("if", e) : e \in Exprs}
         \cup {Stmt("while", e) : e \in Exprs}

\* the else part of an if statement, and the condition of an else-if
ElseBlocks == {[else_block |-> "None", expr |-> "None"],
               [else_block |-> "Block", expr |-> "None"]}
              \cup {[else_block |-> "If", expr |-> e] : e \in Exprs}

Frame(fn, pc, stmt) ==
    [fn |-> fn, pc |-> pc, stmt |-> stmt,
     cur_bb |-> NullBB, cond_bb |-> NullBB, loop_bb |-> NullBB, next_bb |-> NullBB,
     loop_end_bb |-> NullBB, last_bb |-> NullBB, if_bb |-> NullBB,
     if_end_bb |-> NullBB, else_bb |-> NullBB, else_end_bb |-> NullBB]

Top(s) == s.stack[Len(s.stack)]
Push(s, f) == [s EXCEPT !.stack = Append(@, f)]
Pop(s) == [s EXCEPT !.stack = SubSeq(@, 1, Len(@) - 1)]

\* a panic unwinds every visitor call; nothing runs after it
panic(s) == [s EXCEPT !.stack = <<Frame("panic", 0, Stmt("none", "None"))>>]
panicked(s) == s.stack # <<>> /\ Top(s).fn = "panic"

SetTop(s, f) == IF panicked(s) THEN s ELSE [s EXCEPT !.stack[Len(s.stack)] = f]

\* Result::unwrap
unwrap(r) == IF r.ok THEN r.s ELSE panic(r.s)

\* visit_literal_expr inserts nothing; visit_binary_expr visits both sides and
\* inserts one Binary instruction after the cursor
visit_expr(s, e) ==
    IF e = "Binary" THEN insert_after_current_place(s).s ELSE s

\* AstVisitor::visit_stmt: the call of the visitor method of the statement
visit_stmt(s, st) ==
    Push(s, Frame(st.kind, CASE st.kind = "while" -> 113
                             [] st.kind = "if" -> 163
                             [] OTHER -> 239, st))

\* visit_block_stmt: the call that visits a block
visit_block_stmt(s) == Push(s, Frame("block", 303, Stmt("block", "None")))

\* ---- visit_while_stmt, by the line it continues at ----
visit_while_stmt_113(s) ==
    LET f == Top(s)
        cur_bb == s.cbb
        cond_bb == NewBBId(s)
        s1 == unwrap(add_branch(new_bb(s), Jump(cond_bb), cur_bb))
    IN  SetTop(s1, [f EXCEPT !.cur_bb = cur_bb, !.cond_bb = cond_bb, !.pc = 119])

\* a while lowering that seals and fills the loop header instead of cur_bb
visit_while_stmt_119_marks_cond_bb(s) ==
    LET f == Top(s)
    IN  SetTop(mark_filled(mark_sealed(s, f.cond_bb), f.cond_bb), [f EXCEPT !.pc = 122])

visit_while_stmt_119(s) ==
    LET f == Top(s)
    IN  SetTop(mark_filled(mark_sealed(s, f.cur_bb), f.cur_bb), [f EXCEPT !.pc = 122])

visit_while_stmt_122(s) ==
    LET f == Top(s)
        s1 == unwrap(set_current_bb(s, f.cond_bb))
    IN  SetTop(visit_expr(s1, f.stmt.expr), [f EXCEPT !.pc = 125])

visit_while_stmt_125(s) ==
    LET f == Top(s)
        loop_bb == NewBBId(s)
        s1 == new_bb(s)
        next_bb == NewBBId(s1)
        s2 == new_bb(s1)
    IN  SetTop(mark_filled(s2, f.cond_bb),
               [f EXCEPT !.loop_bb = loop_bb, !.next_bb = next_bb, !.pc = 132])

\* the two branches of the loop header emitted in the other order
visit_while_stmt_132_jump_first(s) ==
    LET f == Top(s)
        s1 == unwrap(add_branch(s, Jump(f.next_bb), f.cond_bb))
        s2 == unwrap(add_branch(s1, CondJump(f.loop_bb), f.cond_bb))
    IN  SetTop(s2, [f EXCEPT !.pc = 145])

visit_while_stmt_132(s) ==
    LET f == Top(s)
        s1 == unwrap(add_branch(s, CondJump(f.loop_bb), f.cond_bb))
        s2 == unwrap(add_branch(s1, Jump(f.next_bb), f.cond_bb))
    IN  SetTop(s2, [f EXCEPT !.pc = 145])

visit_while_stmt_145(s) ==
    LET f == Top(s)
        s1 == unwrap(set_current_bb(s, f.loop_bb))
    IN  visit_block_stmt(SetTop(s1, [f EXCEPT !.pc = 147]))

visit_while_stmt_147(s) ==
    LET f == Top(s)
        loop_end_bb == s.cbb
        s1 == unwrap(add_branch(s, Jump(f.cond_bb), loop_end_bb))
    IN  SetTop(s1, [f EXCEPT !.loop_end_bb = loop_end_bb, !.pc = 153])

visit_while_stmt_153(s) ==
    LET f == Top(s)
    IN  SetTop(mark_filled(mark_sealed(s, f.loop_end_bb), f.loop_end_bb),
               [f EXCEPT !.pc = 155])

visit_while_stmt_155(s) ==
    LET f == Top(s)
    IN  SetTop(mark_sealed(s, f.cond_bb), [f EXCEPT !.pc = 157])

visit_while_stmt_157(s) ==
    LET s1 == unwrap(set_current_bb(s, Top(s).next_bb))
    IN  IF panicked(s1) THEN s1 ELSE Pop(s1)

visit_while_stmt(s) ==
    LET pc == Top(s).pc
    IN  CASE pc = 113 -> visit_while_stmt_113(s)
          [] pc = 119 -> visit_while_stmt_119(s)
          [] pc = 122 -> visit_while_stmt_122(s)
          [] pc = 125 -> visit_while_stmt_125(s)
          [] pc = 132 -> visit_while_stmt_132(s)
          [] pc = 145 -> visit_while_stmt_145(s)
          [] pc = 147 -> visit_while_stmt_147(s)
          [] pc = 153 -> visit_while_stmt_153(s)
          [] pc = 155 -> visit_while_stmt_155(s)
          [] OTHER -> visit_while_stmt_157(s)

\* ---- visit_if_stmt, by the line it continues at ----
visit_if_stmt_163(s) ==
    LET f == Top(s)
        s1 == visit_expr(s, f.stmt.expr)
    IN  SetTop(s1, [f EXCEPT !.last_bb = s1.cbb, !.pc = 166])

\* lines 166 and 167 are the same call
visit_if_stmt_166(s) ==
    LET f == Top(s)
    IN  SetTop(mark_sealed(mark_sealed(s, f.last_bb), f.last_bb), [f EXCEPT !.pc = 170])

visit_if_stmt_170(s) ==
    LET f == Top(s)
        if_bb == NewBBId(s)
        s1 == unwrap(add_branch(new_bb(s), CondJump(if_bb), f.last_bb))
    IN  SetTop(s1, [f EXCEPT !.if_bb = if_bb, !.pc = 183])

visit_if_stmt_183(s) ==
    LET f == Top(s)
        s1 == unwrap(set_current_bb(s, f.if_bb))
    IN  visit_block_stmt(SetTop(s1, [f EXCEPT !.pc = 186]))

visit_if_stmt_186(s) ==
    LET f == Top(s)
    IN  SetTop(new_bb(s), [f EXCEPT !.if_end_bb = s.cbb, !.next_bb = NewBBId(s), !.pc = 192])

\* the match on stmt.else_block with the fall-through jump of the arm without
\* else, Jump(next_bb), emitted in last_bb in the arm with an else as well
visit_if_stmt_192_jumps_to_next_bb(s, els) ==
    LET f == Top(s)
    IN  IF els.else_block = "None"
        THEN SetTop(unwrap(add_branch(s, Jump(f.next_bb), f.last_bb)), [f EXCEPT !.pc = 223])
        ELSE LET else_bb == NewBBId(s)
                 s1 == unwrap(add_branch(new_bb(s), Jump(f.next_bb), f.last_bb))
                 s2 == unwrap(set_current_bb(s1, else_bb))
                 s3 == SetTop(s2, [f EXCEPT !.else_bb = else_bb, !.pc = 210])
             IN  IF els.else_block = "If"
                 THEN visit_stmt(s3, Stmt("if", els.expr))
                 ELSE visit_block_stmt(s3)

\* the match on stmt.else_block; els is the else part of the statement
visit_if_stmt_192(s, els) ==
    LET f == Top(s)
    IN  IF els.else_block = "None"
        THEN SetTop(unwrap(add_branch(s, Jump(f.next_bb), f.last_bb)), [f EXCEPT !.pc = 223])
        ELSE LET else_bb == NewBBId(s)
                 s1 == unwrap(add_branch(new_bb(s), Jump(else_bb), f.last_bb))
                 s2 == unwrap(set_current_bb(s1, else_bb))
                 s3 == SetTop(s2, [f EXCEPT !.else_bb = else_bb, !.pc = 210])
             IN  IF els.else_block = "If"
                 THEN visit_stmt(s3, Stmt("if", els.expr))
                 ELSE visit_block_stmt(s3)

visit_if_stmt_210(s) ==
    LET f == Top(s)
    IN  SetTop(s, [f EXCEPT !.else_end_bb = s.cbb, !.pc = 223])

\* only the end of the then arm jumps to next_bb
visit_if_stmt_223_skips_else_end(s) ==
    LET f == Top(s)
        s1 == unwrap(add_branch(s, Jump(f.next_bb), f.if_end_bb))
    IN  SetTop(s1, [f EXCEPT !.pc = 234])

visit_if_stmt_223(s) ==
    LET f == Top(s)
        s1 == unwrap(add_branch(s, Jump(f.next_bb), f.if_end_bb))
        s2 == IF f.else_bb # NullBB
              THEN unwrap(add_branch(s1, Jump(f.next_bb), f.else_end_bb))
              ELSE s1
    IN  SetTop(s2, [f EXCEPT !.pc = 234])

visit_if_stmt_234(s) ==
    LET s1 == unwrap(set_current_bb(s, Top(s).next_bb))
    IN  IF panicked(s1) THEN s1 ELSE Pop(s1)

visit_if_stmt(s, els) ==
    LET pc == Top(s).pc
    IN  CASE pc = 163 -> visit_if_stmt_163(s)
          [] pc = 166 -> visit_if_stmt_166(s)
          [] pc = 170 -> visit_if_stmt_170(s)
          [] pc = 183 -> visit_if_stmt_183(s)
          [] pc = 186 -> visit_if_stmt_186(s)
          [] pc = 192 -> visit_if_stmt_192(s, els)
          [] pc = 210 -> visit_if_stmt_210(s)
          [] pc = 223 -> visit_if_stmt_223(s)
          [] OTHER -> visit_if_stmt_234(s)

\* ---- visit_return_stmt ----
\* visit_return_stmt without the new block after the return
visit_return_stmt_keeps_block(s) ==
    LET s1 == visit_expr(s, Top(s).stmt.expr)
        s2 == unwrap(add_branch(s1, Return, s1.cbb))
    IN  IF panicked(s2) THEN s2 ELSE Pop(s2)

visit_return_stmt(s) ==
    LET s1 == visit_expr(s, Top(s).stmt.expr)
        s2 == unwrap(add_branch(s1, Return, s1.cbb))
        next_bb == NewBBId(s2)
        s3 == unwrap(set_current_bb(new_bb(s2), next_bb))
    IN  IF panicked(s3) THEN s3 ELSE Pop(s3)

\* ---- visit_func: no parameters, then the body ----
visit_func(s) == visit_block_stmt(SetTop(s, [Top(s) EXCEPT !.pc = 270]))

\* ------------------------------------------------------------------------
\* The lowering of one function
\* ------------------------------------------------------------------------
\* FuncBuilder::new, and FuncCompiler::visit_func about to start
InitLower ==
    /\ instructions_arena = <<>>
    /\ inst_slots = 0
    /\ basic_block_arena = starting_block :> BasicBlock_default
    /\ graph_edges = <<>>
    /\ graph_out = starting_block :> <<>>
    /\ graph_in = starting_block :> <<>>
    /\ current_bb = starting_block
    /\ current_idx = None
    /\ sealed = {}
    /\ filled = {}
    /\ stack = <<Frame("func", 269, Stmt("func", "None"))>>
    /\ kinds = <<>>
    /\ defs = <<>>
    /\ pending = <<>>
    /\ last = NoCall

Running(fn) == stack # <<>> /\ Top(St).fn = fn

\* the visitor stands at a todo!(): at the end of a block, or of the function
AtTodo == Running("block") \/ (Running("func") /\ Top(St).pc = 270)

Do_visit_func ==
    /\ Running("func") /\ Top(St).pc = 269
    /\ Commit(visit_func(St))
    /\ last' = Call("visit_func", TRUE, 0, 269, 0)

\* the loop of visit_block_stmt finds one more statement in the block
Do_visit_stmt(ss, mb) ==
    \E st \in ss :
        /\ Running("block")
        /\ Cardinality(DOMAIN basic_block_arena) < mb
        /\ Commit(visit_stmt(St, st))
        /\ last' = Call("visit_stmt", TRUE, 0, 304, 0)

\* todo!() as the source has it: the visitor panics
Do_todo_panics ==
    /\ AtTodo
    /\ Commit(panic(St))
    /\ last' = Call("todo", FALSE, 0, Top(St).pc, 0)

\* todo!() as the placeholder of code to come: the method returns its result
Do_todo_returns ==
    /\ AtTodo
    /\ Commit(Pop(St))
    /\ last' = Call("todo", TRUE, 0, Top(St).pc, 0)

Do_visit_while_stmt ==
    /\ Running("while")
    /\ Commit(visit_while_stmt(St))
    /\ last' = Call("visit_while_stmt", TRUE, Top(St).cond_bb, Top(St).pc, Top(St).next_bb)

Do_visit_if_stmt(mb) ==
    \E els \in ElseBlocks :
        /\ Running("if")
        /\ (Top(St).pc = 192 /\ els.else_block = "If")
               => Cardinality(DOMAIN basic_block_arena) < mb
        /\ Commit(visit_if_stmt(St, els))
        /\ last' = Call("visit_if_stmt", TRUE, Top(St).last_bb, Top(St).pc, Top(St).next_bb)

Do_visit_return_stmt ==
    /\ Running("return")
    /\ Commit(visit_return_stmt(St))
    /\ last' = Call("visit_return_stmt", TRUE, visit_expr(St, Top(St).stmt.expr).cbb, 239,
                    NewBBId(St))

NextLower ==
    \/ Do_visit_func
    \/ Do_visit_stmt(Stmts, MaxLowerBB)
    \/ Do_todo_panics
    \/ Do_todo_returns
    \/ Do_visit_while_stmt
    \/ Do_visit_if_stmt(MaxLowerBB)
    \/ Do_visit_return_stmt

SpecLower == InitLower /\ [][NextLower]_vars

\* the lowering of the functions whose bodies are made of if and return
\* statements
IfReturnStmts == {st \in Stmts : st.kind # "while"}

NextIfReturn ==
    \/ Do_visit_func
    \/ Do_visit_stmt(IfReturnStmts, MaxIfReturnBB)
    \/ Do_todo_panics
    \/ Do_todo_returns
    \/ Do_visit_if_stmt(MaxIfReturnBB)
    \/ Do_visit_return_stmt

SpecIfReturn == InitLower /\ [][NextIfReturn]_vars

\* ------------------------------------------------------------------------
\* Claims on the front-end driver
\* ------------------------------------------------------------------------
\* the while statements being lowered whose loop header exists
WhileFrames == {k \in DOMAIN stack : stack[k].fn = "while" /\ stack[k].cond_bb # NullBB}

\* the body's exit block of the frame has emitted its Jump(cond_bb)
BackEdgeAdded(f) ==
    /\ f.loop_end_bb # NullBB
    /\ \E j \in DOMAIN basic_block_arena[f.loop_end_bb].jumps :
           basic_block_arena[f.loop_end_bb].jumps[j] = Jump(f.cond_bb)

\* C8: while a while statement is lowered, its loop header cond_bb is sealed
\* only once the body's exit block has emitted the back-edge Jump(cond_bb); when
\* cond_bb is sealed its predecessors are exactly the block that was current
\* before the loop and the body's exit block, and the body's exit block is
\* already sealed and filled.
C8_HeaderSealedLast ==
    \A k \in WhileFrames :
        LET f == stack[k]
            preds == pred_of_bb(St, f.cond_bb)
        IN  f.cond_bb \in sealed =>
                /\ BackEdgeAdded(f)
                /\ Len(preds) = 2
                /\ Range(preds) = {f.cur_bb, f.loop_end_bb}
                /\ f.loop_end_bb \in sealed
                /\ f.loop_end_bb \in filled

\* a loop whose body ended in another block than it began has just sealed its
\* header
C8_Witness ==
    \E k \in WhileFrames :
        /\ stack[k].pc = 157
        /\ stack[k].cond_bb \in sealed
        /\ stack[k].loop_end_bb # stack[k].loop_bb

\* C9: when visit_if_stmt returns, the block that holds the condition is in the
\* filled set and in the sealed set.
C9_ConditionBlockFilledSealed ==
    (last.op = "visit_if_stmt" /\ last.b = 234) =>
        (last.a \in filled /\ last.a \in sealed)

\* C10: lowering a return statement appends Return to the jumps of the current
\* block, marks that block filled, creates a fresh block without predecessors,
\* instructions or jumps, and leaves the cursor on the fresh block.
C10_ReturnLowering ==
    last.op = "visit_return_stmt" =>
        LET bb == basic_block_arena[last.a]
            fresh == basic_block_arena[last.r]
        IN  /\ bb.jumps # <<>>
            /\ bb.jumps[Len(bb.jumps)] = Return
            /\ last.a \in filled
            /\ pred_of_bb(St, last.r) = <<>>
            /\ fresh.head = None /\ fresh.tail = None
            /\ fresh.jumps = <<>>
            /\ current_bb = last.r /\ current_idx = None

\* ------------------------------------------------------------------------
\* Claims on bb_connect and bb_split_after
\* ------------------------------------------------------------------------
\* C11: for distinct well-formed blocks front and back, after
\* bb_connect(front, back) the chain of front is front's previous instructions
\* in order followed by back's previous instructions in order, every
\* instruction of it has bb = front, and back has head = tail = None.
C11_ConnectChains ==
    (last.op = "bb_connect" /\ last.snap.both_wf) =>
        LET c == Chain(St, last.a)
        IN  /\ c = last.snap.front_chain \o last.snap.back_chain
            /\ \A k \in DOMAIN c : instructions_arena[c[k]].bb = last.a
            /\ basic_block_arena[last.a].tail = (IF c = <<>> THEN None ELSE c[Len(c)])
            /\ basic_block_arena[last.b].head = None
            /\ basic_block_arena[last.b].tail = None

\* two non-empty well-formed blocks have been connected
C11_Witness ==
    /\ last.op = "bb_connect" /\ last.snap.both_wf
    /\ last.snap.front_chain # <<>>
    /\ last.snap.back_chain # <<>>

\* C12: bb_connect(front, back) returns the jumps front had before the call,
\* leaves in front.jumps the jumps back had before the call, in the same order,
\* and leaves back.jumps empty.
C12_ConnectJumps ==
    last.op = "bb_connect" =>
        /\ last.r = last.snap.front_jumps
        /\ basic_block_arena[last.a].jumps = last.snap.back_jumps
        /\ basic_block_arena[last.b].jumps = <<>>

\* both blocks had jumps, and not the same ones
C12_Witness ==
    /\ last.op = "bb_connect"
    /\ Len(last.snap.back_jumps) > 1
    /\ last.snap.front_jumps # <<>>
    /\ last.snap.front_jumps # last.snap.back_jumps

\* ------------------------------------------------------------------------
\* The inter-block chain: bb_set_before, bb_set_after, bb_detach
\* ------------------------------------------------------------------------
bb_set_before(s, before, bb) == [s EXCEPT !.ba = attach_before(s.ba, before, bb)]

bb_set_after(s, after, bb) == [s EXCEPT !.ba = attach_after(s.ba, after, bb)]

bb_detach(s, bb) == [s EXCEPT !.ba = detach(s.ba, bb)]

\* a block that is not linked into the inter-block chain
Unlinked(s, bb) == s.ba[bb].prev = None /\ s.ba[bb].next = None

Do_bb_set_before ==
    \E before \in DOMAIN basic_block_arena, bb \in DOMAIN basic_block_arena :
        /\ before # bb
        /\ Unlinked(St, bb)
        /\ Commit(bb_set_before(St, before, bb))
        /\ last' = Call("bb_set_before", TRUE, before, bb, 0)

Do_bb_set_after ==
    \E after \in DOMAIN basic_block_arena, bb \in DOMAIN basic_block_arena :
        /\ after # bb
        /\ Unlinked(St, bb)
        /\ Commit(bb_set_after(St, after, bb))
        /\ last' = Call("bb_set_after", TRUE, after, bb, 0)

Do_bb_detach ==
    \E bb \in DOMAIN basic_block_arena :
        /\ Commit(bb_detach(St, bb))
        /\ last' = Call("bb_detach", TRUE, bb, 0, 0)

NextLink ==
    \/ Do_bb_new(MaxLinkSize)
    \/ Do_inst_new(MaxLinkSize)
    \/ Do_inst_append_in_bb
    \/ Do_bb_set_before
    \/ Do_bb_set_after
    \/ Do_bb_detach
    \/ Do_bb_connect

SpecLink == Init /\ [][NextLink]_vars

\* C13: after bb_connect(front, back), back is detached from the inter-block
\* chain: back.prev and back.next are None and no block's prev or next names
\* back, also when back had been linked with bb_set_after or bb_set_before.
C13_BackDetached ==
    last.op = "bb_connect" =>
        /\ basic_block_arena[last.b].prev = None
        /\ basic_block_arena[last.b].next = None
        /\ \A b \in DOMAIN basic_block_arena :
              /\ basic_block_arena[b].prev # last.b
              /\ basic_block_arena[b].next # last.b

\* ------------------------------------------------------------------------
\* Claims on insert_at_end_of and insert_at_start_of
\* ------------------------------------------------------------------------
\* C14: insert_at_end_of (insert_at_start_of) on an existing block makes the new
\* instruction the tail (the head) of the block; the cursor stays as it was
\* unless it was already at the tail (the head) of that block, and then it
\* names the inserted instruction.
C14_InsertAtEnds ==
    [][/\ (last'.op = "insert_at_end_of" /\ last'.ok) =>
              /\ last'.r \notin DOMAIN instructions_arena
              /\ basic_block_arena'[last'.a].tail = last'.r
              /\ instructions_arena'[last'.r].bb = last'.a
              /\ instructions_arena'[last'.r].prev = basic_block_arena[last'.a].tail
              /\ instructions_arena'[last'.r].next = None
              /\ IF current_bb = last'.a /\ current_idx = basic_block_arena[last'.a].tail
                 THEN current_bb' = last'.a /\ current_idx' = last'.r
                 ELSE UNCHANGED <<current_bb, current_idx>>
       /\ (last'.op = "insert_at_start_of" /\ last'.ok) =>
              /\ last'.r \notin DOMAIN instructions_arena
              /\ basic_block_arena'[last'.a].head = last'.r
              /\ instructions_arena'[last'.r].bb = last'.a
              /\ instructions_arena'[last'.r].next = basic_block_arena[last'.a].head
              /\ instructions_arena'[last'.r].prev = None
              /\ IF current_bb = last'.a /\ current_idx = basic_block_arena[last'.a].head
                 THEN current_bb' = last'.a /\ current_idx' = last'.r
                 ELSE UNCHANGED <<current_bb, current_idx>>]_vars

\* an insert_at_start_of into the block of the cursor, the cursor staying on an
\* instruction further down
C14_Witness ==
    /\ last.op = "insert_at_start_of" /\ last.ok
    /\ current_bb = last.a
    /\ current_idx # None /\ current_idx # last.r
    /\ basic_block_arena[last.a].head = last.r

\* the part of q up to its first x, x included (all of q without an x)
UpTo(q, x) ==
    IF \E k \in DOMAIN q : q[k] = x
    THEN SubSeq(q, 1, CHOOSE k \in DOMAIN q : q[k] = x /\ \A j \in 1..(k - 1) : q[j] # x)
    ELSE q

\* C15: bb_split_after(inst, transfer_branches) moves exactly the instructions
\* that followed inst, in the same order, into the new block and sets their bb
\* to it; inst and the instructions before it keep their order and their bb;
\* the jumps move to the new block when transfer_branches is true and stay in
\* the original block when it is false.  The instructions that follow inst are
\* those its next pointers reach; the instructions before it are those of the
\* chain of a well-formed block.
C15_SplitMoves ==
    [][last'.op = "bb_split_after" =>
          LET i == last'.a
              nb == last'.r
              ob == instructions_arena[i].bb
              fuel == inst_slots + 1
              after == Walk(instructions_arena, instructions_arena[i].next, fuel)
              upto == UpTo(last'.snap.chain, i)
          IN  /\ nb \notin DOMAIN basic_block_arena
              /\ Walk(instructions_arena', basic_block_arena'[nb].head, fuel) = after
              /\ \A k \in DOMAIN after : instructions_arena'[after[k]].bb = nb
              /\ {k \in DOMAIN instructions_arena' : instructions_arena'[k].bb = nb}
                     = Range(after)
              /\ instructions_arena'[i].next = None
              /\ instructions_arena'[i].bb = ob
              /\ last'.snap.wf =>
                     /\ upto \o after = last'.snap.chain
                     /\ Walk(instructions_arena', basic_block_arena'[ob].head, fuel) = upto
                     /\ \A k \in DOMAIN upto : instructions_arena'[upto[k]].bb = ob
              /\ IF last'.b = 1
                 THEN /\ basic_block_arena'[nb].jumps = basic_block_arena[ob].jumps
                      /\ basic_block_arena'[ob].jumps = <<>>
                 ELSE /\ basic_block_arena'[ob].jumps = basic_block_arena[ob].jumps
                      /\ basic_block_arena'[nb].jumps = <<>>]_vars

\* a well-formed block with jumps was split before its last instruction, the
\* jumps staying behind
C15_Witness ==
    /\ last.op = "bb_split_after" /\ last.b = 0
    /\ last.snap.wf
    /\ Chain(St, last.r) # <<>>
    /\ basic_block_arena[last.snap.bb].jumps # <<>>
    /\ basic_block_arena[last.r].jumps = <<>>

\* ------------------------------------------------------------------------
\* Claims on the shape of the lowered control flow
\* ------------------------------------------------------------------------
\* the last branch of block b is br
LastJump(ba, b, br) ==
    /\ b \in DOMAIN ba
    /\ ba[b].jumps # <<>>
    /\ ba[b].jumps[Len(ba[b].jumps)] = br

\* C16: lowering an if statement from current block C leaves C.jumps exactly
\* [CondJump(cond, then_bb), Jump(else_bb)] when an else arm exists and
\* [CondJump(cond, then_bb), Jump(next_bb)] otherwise; the block current at the
\* end of the then arm, and the one at the end of the else arm if present, each
\* get Jump(next_bb); the cursor is on next_bb when the lowering returns.
C16_IfShape ==
    [][(Running("if") /\ Top(St).pc = 234) =>
          LET f == Top(St)
          IN  /\ stack' = SubSeq(stack, 1, Len(stack) - 1)
              /\ current_bb' = f.next_bb
              /\ Cardinality({f.last_bb, f.if_bb, f.next_bb, f.else_bb}) = 4
              /\ basic_block_arena'[f.last_bb].jumps
                     = <<CondJump(f.if_bb),
                         Jump(IF f.else_bb # NullBB THEN f.else_bb ELSE f.next_bb)>>
              /\ LastJump(basic_block_arena', f.if_end_bb, Jump(f.next_bb))
              /\ f.else_bb # NullBB
                     => LastJump(basic_block_arena', f.else_end_bb, Jump(f.next_bb))]_vars

\* an if statement with an else arm has returned, the cursor on its next_bb
C16_Witness ==
    /\ last.op = "visit_if_stmt" /\ last.b = 234
    /\ ~panicked(St)
    /\ current_bb = last.r
    /\ Len(basic_block_arena[last.a].jumps) = 2
    /\ basic_block_arena[last.a].jumps[2] # Jump(last.r)

\* the instructions whose bb is block b
InstsOf(ia, b) == {i \in DOMAIN ia : ia[i].bb = b}

\* C17: lowering a while statement from current block P gives P Jump(cond_bb)
\* and marks it sealed and filled; the condition is emitted in cond_bb, whose
\* jumps are exactly [CondJump(cond, loop_bb), Jump(next_bb)]; the block current
\* at the end of the body gets Jump(cond_bb); the cursor is on next_bb when the
\* lowering returns.
C17_WhileShape ==
    [][(Running("while") /\ Top(St).pc = 157) =>
          LET f == Top(St)
              cond == InstsOf(instructions_arena', f.cond_bb)
          IN  /\ stack' = SubSeq(stack, 1, Len(stack) - 1)
              /\ current_bb' = f.next_bb
              /\ Cardinality({f.cur_bb, f.cond_bb, f.loop_bb, f.next_bb, NullBB}) = 5
              /\ LastJump(basic_block_arena', f.cur_bb, Jump(f.cond_bb))
              /\ f.cur_bb \in sealed' /\ f.cur_bb \in filled'
              /\ Cardinality(cond) = (IF f.stmt.expr = "Binary" THEN 1 ELSE 0)
              /\ \A i \in cond : /\ basic_block_arena'[f.cond_bb].head = i
                                 /\ basic_block_arena'[f.cond_bb].tail = i
              /\ basic_block_arena'[f.cond_bb].jumps
                     = <<CondJump(f.loop_bb), Jump(f.next_bb)>>
              /\ LastJump(basic_block_arena', f.loop_end_bb, Jump(f.cond_bb))]_vars

\* a while statement whose condition is an instruction of its loop header has
\* returned, the cursor on its next_bb
C17_Witness ==
    /\ last.op = "visit_while_stmt" /\ last.b = 157
    /\ ~panicked(St)
    /\ current_bb = last.r
    /\ basic_block_arena[last.a].head # None
    /\ Len(basic_block_arena[last.a].jumps) = 2

\* the if statement that returns is that of scenario S2, the whole body
\* `if (a < b) { return a; } else { return b; }`: it is the one statement under
\* way in the body of the function, it started in the starting block, its
\* condition is a Binary and the only instruction, it has an else block, and
\* in the blocks ba each arm is one return: L_then and L_else hold only a
\* Return, and no other block holds anything but the Jump(next_bb) that ends
\* an arm
IsScenarioS2(f, ba, n) ==
    /\ Len(stack) = 3
    /\ f.last_bb = starting_block
    /\ f.stmt.expr = "Binary"
    /\ n = 1
    /\ f.else_bb # NullBB
    /\ ba[f.if_bb].jumps = <<Return>>
    /\ ba[f.else_bb].jumps = <<Return>>
    /\ \A b \in DOMAIN ba \ {f.last_bb, f.if_bb, f.else_bb} :
           ba[b].jumps \in {<<>>, <<Jump(f.next_bb)>>}

Variables == {"v"}

\* InstKind::Phi(map), InstKind::Dead, InstKind::Assign(value); the value of
\* an Assign is an instruction, or None for an immediate
Phi(map) == [k |-> "Phi", ops |-> map]
Dead == [k |-> "Dead", ops |-> <<>>]
Assign(value) == [k |-> "Assign", ops |-> <<value>>]
\* InstKind::Binary with an instruction as lhs and an immediate as rhs
Binary(lhs) == [k |-> "Binary", ops |-> <<lhs>>]

\* InstKind::param_op_iter: the instructions a kind takes as operands
param_op_iter(kind) == Range(kind.ops) \ {None}

\* the instructions that are not Dead
Live(s) == {i \in DOMAIN s.kinds : s.kinds[i].k # "Dead"}

\* the elements of a set of numbers, in increasing order
RECURSIVE Sorted(_)
Sorted(S) ==
    IF S = {} THEN <<>>
    ELSE LET m == CHOOSE m \in S : \A x \in S : m <= x
         IN  <<m>> \o Sorted(S \ {m})

\* a new Phi without operands in bb, a new Assign in bb: instructions that
\* name their block (their place among the instructions of the block is left
\* open: operands per predecessor do not depend on it)
insert_phi(s, bb) ==
    [tac_new(s, bb) EXCEPT !.kinds = Extend(@, s.n + 1, Phi(<<>>))]

insert_assign(s, bb, value) ==
    [tac_new(s, bb) EXCEPT !.kinds = Extend(@, s.n + 1, Assign(value))]

write_variable(s, var, bb, value_inst) ==
    [s EXCEPT !.defs = Extend(@, <<var, bb>>, value_inst)]

\* the value a Return branch carries is a use as well
replace_in_jumps(jumps, phi, x) ==
    [k \in DOMAIN jumps |->
        IF "val" \in DOMAIN jumps[k] /\ jumps[k].val = phi
        THEN [jumps[k] EXCEPT !.val = x] ELSE jumps[k]]

\* replace all uses of phi with x: in the operands of every instruction, in
\* the current definitions and in the branches
replace_uses(s, phi, x) ==
    [s EXCEPT !.kinds = [i \in DOMAIN @ |-> [@[i] EXCEPT !.ops = Renamed(@, phi, x)]],
              !.defs = Renamed(@, phi, x),
              !.ba = [b \in DOMAIN s.ba |->
                         [s.ba[b] EXCEPT !.jumps = replace_in_jumps(@, phi, x)]]]

\* The recursion of the builder.  Each operator returns Ok(state, value), or
\* Err when the recursion does not come to an end (a cycle of sealed blocks
\* with one predecessor each): fuel is the depth still allowed.
RECURSIVE read_variable(_, _, _, _)
RECURSIVE read_variable_recursive(_, _, _, _)
RECURSIVE add_phi_operands(_, _, _, _, _)
RECURSIVE try_remove_trivial_phi(_, _, _)
RECURSIVE retry_users(_, _, _)

read_variable(s, var, bb, fuel) ==
    IF <<var, bb>> \in DOMAIN s.defs THEN Ok(s, s.defs[<<var, bb>>])
    ELSE read_variable_recursive(s, var, bb, fuel)

read_variable_recursive(s, var, bb, fuel) ==
    LET preds == pred_of_bb(s, bb)
        phi == s.n + 1
    IN  IF fuel = 0 THEN Err(s, "Diverges")
        ELSE IF bb \notin s.sealed
        THEN LET s1 == [insert_phi(s, bb) EXCEPT !.pending = Extend(@, <<bb, var>>, phi)]
             IN  Ok(write_variable(s1, var, bb, phi), phi)
        ELSE IF Cardinality(Range(preds)) = 1
        THEN LET r == read_variable(s, var, preds[1], fuel - 1)
             IN  IF ~r.ok THEN r ELSE Ok(write_variable(r.s, var, bb, r.v), r.v)
        ELSE LET s1 == write_variable(insert_phi(s, bb), var, bb, phi)
                 r == add_phi_operands(s1, phi, var, preds, fuel - 1)
             IN  IF ~r.ok THEN r ELSE try_remove_trivial_phi(r.s, phi, fuel - 1)

\* ps: the predecessors still to read from
add_phi_operands(s, phi, var, ps, fuel) ==
    IF ps = <<>> THEN Ok(s, phi)
    ELSE LET r == read_variable(s, var, Head(ps), fuel)
         IN  IF ~r.ok THEN r
             ELSE add_phi_operands(
                      [r.s EXCEPT !.kinds[phi].ops = Extend(@, Head(ps), r.v)],
                      phi, var, Tail(ps), fuel)

\* the removal of a trivial Phi that does not retry the Phis that used it
try_remove_trivial_phi_once(s, phi, fuel) ==
    LET others == Range(s.kinds[phi].ops) \ {phi}
    IN  IF fuel = 0 THEN Err(s, "Diverges")
        ELSE IF s.kinds[phi].k # "Phi" \/ Cardinality(others) # 1 THEN Ok(s, phi)
        ELSE LET x == CHOOSE x \in others : TRUE
             IN  Ok([replace_uses(s, phi, x) EXCEPT !.kinds[phi] = Dead], x)

try_remove_trivial_phi(s, phi, fuel) ==
    LET others == Range(s.kinds[phi].ops) \ {phi}
    IN  IF fuel = 0 THEN Err(s, "Diverges")
        ELSE IF s.kinds[phi].k # "Phi" \/ Cardinality(others) # 1 THEN Ok(s, phi)
        ELSE LET x == CHOOSE x \in others : TRUE
                 users == {u \in DOMAIN s.kinds :
                              u # phi /\ s.kinds[u].k = "Phi"
                                      /\ phi \in param_op_iter(s.kinds[u])}
                 s1 == [replace_uses(s, phi, x) EXCEPT !.kinds[phi] = Dead]
                 r == retry_users(s1, Sorted(users), fuel - 1)
             IN  IF ~r.ok THEN r ELSE Ok(r.s, x)

retry_users(s, us, fuel) ==
    IF us = <<>> THEN Ok(s, 0)
    ELSE LET r == try_remove_trivial_phi(s, Head(us), fuel)
         IN  IF ~r.ok THEN r ELSE retry_users(r.s, Tail(us), fuel)

\* the incomplete Phis of bb, as <<variable, phi>> in the order they were made
pending_of(s, bb) ==
    LET phis == {s.pending[k] : k \in {k \in DOMAIN s.pending : k[1] = bb}}
        q == Sorted(phis)
    IN  [j \in DOMAIN q |->
            <<(CHOOSE k \in DOMAIN s.pending : k[1] = bb /\ s.pending[k] = q[j])[2], q[j]>>]

RECURSIVE complete_pending(_, _, _, _)
complete_pending(s, bb, todo, fuel) ==
    IF todo = <<>> THEN Ok(s, 0)
    ELSE LET var == Head(todo)[1]
             phi == Head(todo)[2]
             r1 == add_phi_operands(s, phi, var, pred_of_bb(s, bb), fuel)
             r2 == IF r1.ok THEN try_remove_trivial_phi(r1.s, phi, fuel) ELSE r1
         IN  IF ~r2.ok THEN r2 ELSE complete_pending(r2.s, bb, Tail(todo), fuel)

\* a seal_block that forgets the incomplete Phis of the block
seal_block_drops_pending(s, bb, fuel) ==
    Ok([mark_sealed(s, bb) EXCEPT !.pending =
           [k \in {k \in DOMAIN @ : k[1] # bb} |-> @[k]]], 0)

seal_block(s, bb, fuel) ==
    LET r == complete_pending(mark_sealed(s, bb), bb, pending_of(s, bb), fuel)
    IN  IF ~r.ok THEN r
        ELSE Ok([r.s EXCEPT !.pending =
                    [k \in {k \in DOMAIN @ : k[1] # bb} |-> @[k]]], 0)

\* ------------------------------------------------------------------------
\* Calls on a FuncBuilder
\* ------------------------------------------------------------------------
\* deeper than any recursion of the builder that comes to an end
SSAFuel == 2 * (MaxSSABlocks + MaxSSAInsts) + 2

\* the call returned and the function is still within the bounds
Returns(r) == r.ok /\ r.s.n <= MaxSSAInsts

\* No read looks at the predecessors of a block that is not sealed, and no
\* edge is added to a block that is sealed: a sequence of calls has the same
\* outcome with its new_bb and add_branch calls made first.  The builder reads
\* the predecessor list of a block and no other part of the graph: branches
\* into different blocks give the same lists in either order.  The calls are
\* explored in that order: the blocks, then the branches target by target,
\* then the variables.  The starting block is the entry of the function: no
\* branch targets it.
Building == inst_slots = 0 /\ sealed = {}

Do_ssa_new_bb ==
    /\ Cardinality(DOMAIN basic_block_arena) < MaxSSABlocks
    /\ Building /\ graph_edges = <<>>
    /\ Commit(new_bb(St))
    /\ UNCHANGED last

\* a branch from bb to target; no edge is added to a block once it is sealed
Do_ssa_add_branch ==
    \E bb \in DOMAIN basic_block_arena, target \in DOMAIN basic_block_arena :
        /\ Len(graph_edges) < MaxSSAEdges
        /\ Building
        /\ target \notin sealed
        /\ target # starting_block
        /\ graph_edges # <<>> => graph_edges[Len(graph_edges)][2] <= target
        /\ Commit(add_branch(St, Jump(target), bb).s)
        /\ UNCHANGED last

\* `var = <immediate>` in bb: a new Assign is the definition of var
Do_assign_imm ==
    \E var \in Variables, bb \in DOMAIN basic_block_arena :
        /\ inst_slots < MaxSSAInsts
        /\ Commit(write_variable(insert_assign(St, bb, None), var, bb, inst_slots + 1))
        /\ UNCHANGED last

Do_read_variable ==
    \E var \in Variables, bb \in DOMAIN basic_block_arena :
        LET r == read_variable(St, var, bb, SSAFuel)
        IN  /\ Returns(r)
            /\ Commit(r.s)
            /\ UNCHANGED last

\* `var = f(var)` in bb: a read of var in bb whose value a new instruction of
\* bb takes as its operand, the new instruction being the definition of var
Do_use_variable ==
    \E var \in Variables, bb \in DOMAIN basic_block_arena :
        LET r == read_variable(St, var, bb, SSAFuel)
            s1 == insert_assign(r.s, bb, r.v)
        IN  /\ r.ok /\ r.s.n < MaxSSAInsts
            /\ Commit(write_variable(s1, var, bb, r.s.n + 1))
            /\ UNCHANGED last

Do_seal_block ==
    \E bb \in DOMAIN basic_block_arena \ sealed :
        LET r == seal_block(St, bb, SSAFuel)
        IN  /\ Returns(r)
            /\ Commit(r.s)
            /\ UNCHANGED last

NextSSA ==
    \/ Do_ssa_new_bb
    \/ Do_ssa_add_branch
    \/ Do_assign_imm
    \/ Do_read_variable
    \/ Do_use_variable
    \/ Do_seal_block

SpecSSA == InitEditor /\ [][NextSSA]_vars

\* ------------------------------------------------------------------------
\* Claims on the SSA builder
\* ------------------------------------------------------------------------
\* the live Phis
LivePhis == {i \in DOMAIN kinds : kinds[i].k = "Phi"}

\* a Phi is trivial: its operands are itself or one single other value
Trivial(i) == Cardinality(Range(kinds[i].ops) \ {i}) = 1

\* the instructions that an operand or a current definition names
Referenced ==
    UNION {param_op_iter(kinds[i]) : i \in Live(St)} \cup Range(defs)

\* the block of an instruction, and the predecessors of a block
BlockOf(i) == instructions_arena[i].bb
Preds(b) == Range(pred_of_bb(St, b))

\* block b is the block of scenario S6 for var: it is sealed, it has two
\* predecessors, both define var as the same instruction, and b has no
\* definition of its own for var
IsScenarioS6(var, b) ==
    /\ b \in sealed
    /\ Cardinality(Preds(b)) = 2
    /\ \A p \in Preds(b) : <<var, p>> \in DOMAIN defs
    /\ Cardinality({defs[<<var, p>>] : p \in Preds(b)}) = 1
    /\ <<var, b>> \in DOMAIN defs => BlockOf(defs[<<var, b>>]) # b

\* C19: no trivial Phi remains once its block is sealed.  When a sealed block
\* has predecessors p1 and p2 that both define v as the same instruction d,
\* read_variable(v, block) returns d, every Phi the read creates is Dead when
\* it returns, and no live instruction and no defs entry names a Dead
\* instruction: the removal reaches the Phis that used the removed one.
C19_NoTrivialPhi ==
    /\ \A i \in LivePhis : BlockOf(i) \in sealed => ~Trivial(i)
    /\ Referenced \subseteq Live(St)
    /\ \A var \in Variables, b \in DOMAIN basic_block_arena :
           IsScenarioS6(var, b) =>
               LET r == read_variable(St, var, b, SSAFuel)
                   d == defs[<<var, CHOOSE p \in Preds(b) : TRUE>>]
               IN  /\ r.ok
                   /\ r.v = d
                   /\ r.s.defs[<<var, b>>] = d
                   /\ \A i \in DOMAIN r.s.kinds \ DOMAIN kinds : r.s.kinds[i] = Dead
                   /\ Live(r.s) = Live(St)

\* a Phi made for block b before it was sealed is Dead; b is sealed, its two
\* predecessors define v as one instruction, and so does b
C19_Witness ==
    \E var \in Variables, b \in DOMAIN basic_block_arena :
        /\ IsScenarioS6(var, b)
        /\ <<var, b>> \in DOMAIN defs
        /\ \E i \in DOMAIN kinds : kinds[i] = Dead /\ BlockOf(i) = b

\* C20: every live Phi in a sealed block has an operand map whose key set is
\* the predecessor set of its block; a Phi in a block that is not sealed is
\* recorded in pending[block] and has no operand yet; pending[block] is empty
\* once the block is sealed.
C20_PhiOperands ==
    /\ \A i \in LivePhis :
           IF BlockOf(i) \in sealed
           THEN DOMAIN kinds[i].ops = Preds(BlockOf(i))
           ELSE /\ \E var \in Variables :
                       /\ <<BlockOf(i), var>> \in DOMAIN pending
                       /\ pending[<<BlockOf(i), var>>] = i
                /\ kinds[i].ops = <<>>
    /\ \A k \in DOMAIN pending : k[1] \notin sealed

\* a Phi with two operands lives in a sealed block while another block, not
\* sealed, holds an incomplete Phi
C20_Witness ==
    \E i \in LivePhis :
        /\ BlockOf(i) \in sealed
        /\ Cardinality(DOMAIN kinds[i].ops) = 2
        /\ \E j \in LivePhis : j # i /\ BlockOf(j) \notin sealed

\* ------------------------------------------------------------------------
\* The lowering of a loop over a local variable: the calls visit_while_stmt
\* makes, on a FuncBuilder that places the Phis.  The function is
\*     <assignments>; while (<cond>) { <assignments> } [return i;]
\* where a condition is a literal or `i < k`, and an assignment is `i = k` or
\* `i = i + k`.
\* ------------------------------------------------------------------------
LoopVar == "v"

LoopFrame ==
    [fn |-> "loop", pc |-> 112, cur_bb |-> NullBB, cond_bb |-> NullBB,
     loop_bb |-> NullBB, next_bb |-> NullBB, d0 |-> None, phi |-> None,
     cond |-> None, add |-> None, body |-> <<>>, returned |-> FALSE]

InitLoop ==
    /\ instructions_arena = <<>>
    /\ inst_slots = 0
    /\ basic_block_arena = starting_block :> BasicBlock_default
    /\ graph_edges = <<>>
    /\ graph_out = starting_block :> <<>>
    /\ graph_in = starting_block :> <<>>
    /\ current_bb = starting_block
    /\ current_idx = None
    /\ sealed = {}
    /\ filled = {}
    /\ stack = <<LoopFrame>>
    /\ kinds = <<>>
    /\ defs = <<>>
    /\ pending = <<>>
    /\ last = NoCall

LoopFuel == 2 * MaxLoopInsts + 10

\* `i = k` in the current block: the Assign is the definition of i
assign_imm(s) ==
    Ok(write_variable(insert_assign(s, s.cbb, None), LoopVar, s.cbb, s.n + 1), s.n + 1)

\* a Binary of the current block whose lhs is a read of i
binary_of_read(s) ==
    Then(read_variable(s, LoopVar, s.cbb, LoopFuel),
         LAMBDA r : Ok([tac_new(r.s, s.cbb) EXCEPT
                            !.kinds = Extend(@, r.s.n + 1, Binary(r.v))],
                       r.s.n + 1))

\* `i = i + k` in the current block: the Binary is the definition of i
assign_incr(s) ==
    Then(binary_of_read(s), LAMBDA r : Ok(write_variable(r.s, LoopVar, s.cbb, r.v), r.v))

\* what the visitor remembers of the last assignment before the loop
def_in(s, bb) == IF <<LoopVar, bb>> \in DOMAIN s.defs THEN s.defs[<<LoopVar, bb>>] ELSE None

\* a loop lowering that seals the loop header when it creates it
loop_113_seals_cond_bb(s) ==
    LET f == Top(s)
        cur_bb == s.cbb
        cond_bb == NewBBId(s)
    IN  Then(seal_block(add_branch(new_bb(s), Jump(cond_bb), cur_bb).s, cur_bb, LoopFuel),
             LAMBDA r0 :
                 Then(seal_block(r0.s, cond_bb, LoopFuel),
                      LAMBDA r :
                          Ok(SetTop(set_current_bb(mark_filled(r.s, cur_bb), cond_bb).s,
                                    [f EXCEPT !.cur_bb = cur_bb, !.cond_bb = cond_bb,
                                              !.d0 = def_in(s, cur_bb), !.pc = 123]), 0)))

\* lines 113-122: cond_bb, Jump(cond_bb) in cur_bb, cur_bb sealed and filled
loop_113(s) ==
    LET f == Top(s)
        cur_bb == s.cbb
        cond_bb == NewBBId(s)
    IN  Then(seal_block(add_branch(new_bb(s), Jump(cond_bb), cur_bb).s, cur_bb, LoopFuel),
             LAMBDA r :
                 Ok(SetTop(set_current_bb(mark_filled(r.s, cur_bb), cond_bb).s,
                           [f EXCEPT !.cur_bb = cur_bb, !.cond_bb = cond_bb,
                                     !.d0 = def_in(s, cur_bb), !.pc = 123]), 0))

\* lines 123-145: the condition in cond_bb (reads: it is `i < k`), loop_bb and
\* next_bb, cond_bb filled, its two branches, the cursor on loop_bb
loop_123(s, reads) ==
    Then(IF reads THEN binary_of_read(s) ELSE Ok(s, None),
         LAMBDA r :
             LET f == Top(s)
                 loop_bb == NewBBId(r.s)
                 next_bb == loop_bb + 1
                 s1 == mark_filled(new_bb(new_bb(r.s)), f.cond_bb)
                 s2 == add_branch(add_branch(s1, CondJump(loop_bb), f.cond_bb).s,
                                  Jump(next_bb), f.cond_bb).s
                 s3 == set_current_bb(s2, loop_bb).s
             IN  Ok(SetTop(s3, [f EXCEPT !.loop_bb = loop_bb, !.next_bb = next_bb,
                                         !.cond = r.v,
                                         !.phi = IF reads THEN r.s.kinds[r.v].ops[1]
                                                 ELSE None,
                                         !.pc = 146]), 0))

\* lines 147-157: Jump(cond_bb) at the end of the body, the exit block of the
\* body sealed and filled, cond_bb sealed, the cursor on next_bb
loop_147(s) ==
    LET f == Top(s)
        loop_end_bb == s.cbb
    IN  Then(seal_block(add_branch(s, Jump(f.cond_bb), loop_end_bb).s, loop_end_bb, LoopFuel),
             LAMBDA r1 :
                 Then(seal_block(mark_filled(r1.s, loop_end_bb), f.cond_bb, LoopFuel),
                      LAMBDA r2 :
                          Ok(SetTop(set_current_bb(r2.s, f.next_bb).s,
                                    [f EXCEPT !.pc = 159]), 0)))

\* `return i;`: Return(read of i) in the current block
return_read(s) ==
    Then(read_variable(s, LoopVar, s.cbb, LoopFuel),
         LAMBDA r : Ok(SetTop(add_branch(r.s, ReturnDest(r.v), s.cbb).s,
                              [Top(s) EXCEPT !.returned = TRUE]), r.v))

\* the call returned within the bound on the instructions
Fits(r) == r.ok /\ r.s.n <= MaxLoopInsts

\* an assignment before the loop or in its body
Do_loop_assign ==
    \E incr \in BOOLEAN :
      \E r \in {IF incr THEN assign_incr(St) ELSE assign_imm(St)} :
        LET f == Top(St)
        IN  /\ Running("loop")
            /\ \/ f.pc = 112 /\ inst_slots < MaxLoopStmts
               \/ f.pc = 146 /\ Len(f.body) < MaxLoopStmts
            /\ Fits(r)
            /\ Commit(IF f.pc = 146
                      THEN SetTop(r.s, [f EXCEPT !.body = Append(@, incr),
                                                 !.add = IF incr THEN r.v ELSE @])
                      ELSE r.s)
            /\ UNCHANGED last

Do_loop_113 ==
    /\ Running("loop") /\ Top(St).pc = 112
    /\ \E r \in {loop_113(St)} : Fits(r) /\ Commit(r.s)
    /\ UNCHANGED last

Do_loop_123 ==
    \E reads \in BOOLEAN :
        /\ Running("loop") /\ Top(St).pc = 123
        /\ \E r \in {loop_123(St, reads)} : Fits(r) /\ Commit(r.s)
        /\ UNCHANGED last

Do_loop_147 ==
    /\ Running("loop") /\ Top(St).pc = 146
    /\ \E r \in {loop_147(St)} : Fits(r) /\ Commit(r.s)
    /\ UNCHANGED last

\* the block after the loop is sealed: its one predecessor is known
Do_loop_seal_next ==
    /\ Running("loop") /\ Top(St).pc = 159
    /\ current_bb \notin sealed
    /\ \E r \in {seal_block(St, current_bb, LoopFuel)} : Fits(r) /\ Commit(r.s)
    /\ UNCHANGED last

Do_loop_return ==
    /\ Running("loop") /\ Top(St).pc = 159
    /\ ~Top(St).returned
    /\ \E r \in {return_read(St)} : Fits(r) /\ Commit(r.s)
    /\ UNCHANGED last

NextLoop ==
    \/ Do_loop_assign
    \/ Do_loop_113
    \/ Do_loop_123
    \/ Do_loop_147
    \/ Do_loop_seal_next
    \/ Do_loop_return

SpecLoop == InitLoop /\ [][NextLoop]_vars

\* ------------------------------------------------------------------------
\* Claims on the Phi of a loop header
\* ------------------------------------------------------------------------
\* the function is that of scenario S4: i is assigned before the loop, the
\* condition reads i, and the body is `i = i + 1`
IsScenarioS4(f) ==
    /\ f.d0 # None
    /\ f.cond # None
    /\ f.body = <<TRUE>>

func_only == <<instructions_arena, inst_slots, basic_block_arena, graph_edges,
               graph_out, graph_in>>

\* C22: for an existing block x and any cursor, set_current_bb(x) leaves
\* current_bb = x and current_idx = the tail of x and changes nothing else;
\* called twice in a row, the second call leaves the cursor as the first left
\* it and returns unchanged = true.  The same holds for set_current_bb_start
\* with the head of x.
C22_SetCurrentBBTwice ==
    [][/\ (last'.op = "set_current_bb" /\ last'.ok) =>
              /\ current_bb' = last'.a
              /\ current_idx' = basic_block_arena[last'.a].tail
              /\ UNCHANGED func_only
              /\ last'.b = 1 => (last'.r = TRUE /\ UNCHANGED <<current_bb, current_idx>>)
       /\ (last'.op = "set_current_bb_start" /\ last'.ok) =>
              /\ current_bb' = last'.a
              /\ current_idx' = basic_block_arena[last'.a].head
              /\ UNCHANGED func_only
              /\ last'.b = 1 => (last'.r = TRUE /\ UNCHANGED <<current_bb, current_idx>>)]_vars

\* set_current_bb on a block of two instructions has moved the cursor there
\* from another block and, called again, has returned true
C22_Witness ==
    /\ last.op = "set_current_bb" /\ last.ok
    /\ last.b = 1 /\ last.r = TRUE
    /\ basic_block_arena[last.a].head # basic_block_arena[last.a].tail
    /\ Cardinality(DOMAIN basic_block_arena) > 1

\* ------------------------------------------------------------------------
\* Claims on inst_set_before followed by inst_detach
\* ------------------------------------------------------------------------
\* C23: for an instruction x placed in a (well-formed) block and a freestanding
\* instruction y, inst_set_before(x, y) followed by inst_detach(y) leaves the
\* chain as it was: the head and the tail of the block and every prev/next
\* link and bb are the same as before the two calls, y being freestanding
\* again; also when x is the head of its block.
C23_SetBeforeDetach ==
    \A x \in DOMAIN instructions_arena, y \in DOMAIN instructions_arena :
        (/\ Placed(St, x) /\ WellFormed(St, instructions_arena[x].bb)
         /\ Free(St, y) /\ CanSetBefore(St, x, y)) =>
            LET s2 == inst_detach(inst_set_before(St, x, y), y)
            IN  /\ s2.ba = basic_block_arena
                /\ s2.ia = instructions_arena

\* ------------------------------------------------------------------------
\* The end pointers of a block: the insertions of the FuncEditor at its
\* cursor, and inst_append_in_bb / inst_prepend_in_bb on its TacFunc (the
\* field `func` of the editor is public)
\* ------------------------------------------------------------------------
NextEnds ==
    \/ Do_new_bb(MaxEndsSize)
    \/ Do_inst_new(MaxEndsSize)
    \/ Do_inst_append_in_bb
    \/ Do_inst_prepend_in_bb
    \/ Do_set_current_bb
    \/ Do_set_current_bb_start
    \/ Do_insert_after_current_place(MaxEndsSize)
    \/ Do_insert_before_current_place(MaxEndsSize)

SpecEnds == InitEditor /\ [][NextEnds]_vars

\* block bb is empty; block bb holds the single instruction s
IsEmpty(bb) == bb.head = None /\ bb.tail = None
IsSingle(bb, s) == s # None /\ bb.head = s /\ bb.tail = s

\* C24: an insertion into an empty block (insert_after_current_place,
\* insert_before_current_place, inst_append_in_bb, inst_prepend_in_bb) sets both
\* head and tail of the block to the new instruction; an insertion next to the
\* single instruction s of a block updates one end pointer: after s, tail is
\* the new instruction and head stays s; before s, head is the new instruction
\* and tail stays s.
C24_EndPointers ==
    [][/\ last'.op \in {"insert_after_current_place", "insert_before_current_place"} =>
              LET bb == basic_block_arena[current_bb]
                  nb == basic_block_arena'[current_bb]
                  after == last'.op = "insert_after_current_place"
              IN  /\ last'.r \notin DOMAIN instructions_arena
                  /\ IsEmpty(bb) => (nb.head = last'.r /\ nb.tail = last'.r)
                  /\ IsSingle(bb, current_idx) =>
                         /\ nb.head = (IF after THEN current_idx ELSE last'.r)
                         /\ nb.tail = (IF after THEN last'.r ELSE current_idx)
       /\ last'.op \in {"inst_append_in_bb", "inst_prepend_in_bb"} =>
              LET bb == basic_block_arena[last'.b]
                  nb == basic_block_arena'[last'.b]
                  after == last'.op = "inst_append_in_bb"
              IN  /\ IsEmpty(bb) => (nb.head = last'.a /\ nb.tail = last'.a)
                  /\ IsSingle(bb, bb.head) =>
                         /\ nb.head = (IF after THEN bb.head ELSE last'.a)
                         /\ nb.tail = (IF after THEN last'.a ELSE bb.tail)]_vars

\* insert_before_current_place at the single instruction of a block: the new
\* instruction is the head and the old one is still the tail
C24_Witness ==
    /\ last.op = "insert_before_current_place"
    /\ basic_block_arena[current_bb].head = last.r
    /\ basic_block_arena[current_bb].tail # last.r
    /\ instructions_arena[last.r].next = basic_block_arena[current_bb].tail
    /\ Chain(St, current_bb) = <<last.r, basic_block_arena[current_bb].tail>>

\* ------------------------------------------------------------------------
\* bb_connect on any two live blocks, the same block twice included
\* ------------------------------------------------------------------------
\* a bb_get2_mut that hands out the same block twice
bb_get2_mut_allows_alias(s, i1, i2) ==
    IF ~bb_exists(s, i1) \/ ~bb_exists(s, i2) THEN panic(s) ELSE s

\* bb_get2_mut: get2_mut of the arena panics when both handles name one block;
\* a handle without a block panics in unwrap_or_else
bb_get2_mut(s, i1, i2) ==
    IF i1 = i2 \/ ~bb_exists(s, i1) \/ ~bb_exists(s, i2) THEN panic(s) ELSE s

\* bb_connect from its first line: debug_assert_ne! (a build with debug
\* assertions), then bb_get2_mut, then the body
bb_connect_checked(s, front, back, debug_assertions) ==
    IF debug_assertions /\ front = back THEN panic(s)
    ELSE LET s1 == bb_get2_mut(s, front, back)
         IN  IF panicked(s1) THEN s1 ELSE bb_connect(s, front, back)

Do_bb_connect_same ==
    \E bb \in DOMAIN basic_block_arena, debug_assertions \in BOOLEAN :
        /\ Commit(bb_connect_checked(St, bb, bb, debug_assertions))
        /\ last' = Call("bb_connect", FALSE, bb, bb, 0)

\* nothing runs after a panic
NextConnect ==
    /\ ~panicked(St)
    /\ \/ Do_bb_new(MaxConnectSize)
       \/ Do_inst_new(MaxConnectSize)
       \/ Do_inst_append_in_bb
       \/ Do_jumps_push(MaxConnectSize)
       \/ Do_bb_connect
       \/ Do_bb_connect_same

SpecConnect == Init /\ [][NextConnect]_vars

\* C25: bb_connect(front, back) with front = back panics, and no block's head,
\* tail or jumps and no instruction's links or bb have changed when it does.
C25_ConnectSamePanics ==
    [][(last'.op = "bb_connect" /\ last'.a = last'.b) =>
          /\ panicked([stack |-> stack'])
          /\ UNCHANGED func_and_cursor]_vars

\* bb_connect of a block with itself has panicked; the block holds two
\* instructions and a jump
C25_Witness ==
    /\ last.op = "bb_connect" /\ last.a = last.b
    /\ panicked(St)
    /\ Len(Chain(St, last.a)) = 2
    /\ basic_block_arena[last.a].jumps # <<>>

\* ------------------------------------------------------------------------
\* FuncCompiler: the lowering of expressions.  An expression is a tree of
\* literals, identifiers, unary and binary operations; the visitor returns
\* Ok((Value, Ty)) or Err(TypeMismatch).
\* ------------------------------------------------------------------------
\* Ty: the integers, and the unit type
Tys == {"Int", "Unit"}

LiteralExpr == [node |-> "Literal"]
Ident(ty) == [node |-> "Ident", ty |-> ty]
UnaryExpr(op, expr) == [node |-> "Unary", op |-> op, expr |-> expr]
BinaryExpr(lhs, rhs) == [node |-> "Binary", lhs |-> lhs, rhs |-> rhs]

\* the expressions without operands, with operands of the first kind, ...
Exprs0 == {LiteralExpr} \cup {Ident(ty) : ty \in Tys}
Exprs1 == Exprs0 \cup {BinaryExpr(l, r) : l \in Exprs0, r \in Exprs0}
                 \cup {UnaryExpr(op, e) : op \in {"Neg", "Pos"}, e \in Exprs0}
BinaryExprs == {BinaryExpr(l, r) : l \in Exprs1, r \in Exprs1}

\* Value::Imm(_); the value of an identifier; Value::Dest(i) is i
Imm == "Imm"
VarValue == "Var"

TypeMismatch(expected, found) ==
    [err |-> "TypeMismatch", expected |-> expected, found |-> found]

\* Inst { kind: InstKind::Binary(BinaryInst { op, lhs, rhs }), ty }
BinaryInst(lhs, rhs, ty) == [k |-> "Binary", ops |-> <<lhs, rhs>>, ty |-> ty]

\* builder.insert_after_current_place(inst)
insert_inst(s, inst) ==
    Then(insert_after_current_place(s),
         LAMBDA r : Ok([r.s EXCEPT !.kinds = Extend(@, r.v, inst)], r.v))

assert_type_eq(s, lhs, rhs) ==
    IF lhs # rhs THEN Err(s, TypeMismatch(lhs, rhs)) ELSE Ok(s, 0)

visit_literal_expr(s, expr) == Ok(s, <<Imm, "Int">>)

\* todo!()
visit_ident_expr(s, expr) == [s |-> panic(s), ok |-> FALSE, v |-> "panic"]

\* the read of a local that is to replace todo!(): a value of the type of the
\* local
visit_ident_expr_returns(s, expr) == Ok(s, <<VarValue, expr.ty>>)

RECURSIVE visit_expr_node(_, _, _)
RECURSIVE visit_binary_expr_no_check(_, _, _)
RECURSIVE visit_binary_expr(_, _, _)
RECURSIVE visit_unary_expr(_, _, _)

\* AstVisitor::visit_expr: the visitor method of the node; idents tells
\* whether the read of a local is implemented
visit_expr_node(s, expr, idents) ==
    CASE expr.node = "Literal" -> visit_literal_expr(s, expr)
      [] expr.node = "Ident" -> IF idents THEN visit_ident_expr_returns(s, expr)
                                ELSE visit_ident_expr(s, expr)
      [] expr.node = "Unary" -> visit_unary_expr(s, expr, idents)
      [] OTHER -> visit_binary_expr(s, expr, idents)

\* visit_binary_expr without assert_type_eq
visit_binary_expr_no_check(s, expr, idents) ==
    Then(visit_expr_node(s, expr.lhs, idents), LAMBDA l :
    Then(visit_expr_node(l.s, expr.rhs, idents), LAMBDA r :
    Then(insert_inst(r.s, BinaryInst(l.v[1], r.v[1], l.v[2])), LAMBDA v :
    Ok(v.s, <<v.v, l.v[2]>>))))

visit_binary_expr(s, expr, idents) ==
    Then(visit_expr_node(s, expr.lhs, idents), LAMBDA l :
    Then(visit_expr_node(l.s, expr.rhs, idents), LAMBDA r :
    Then(assert_type_eq(r.s, l.v[2], r.v[2]), LAMBDA t :
    Then(insert_inst(r.s, BinaryInst(l.v[1], r.v[1], l.v[2])), LAMBDA v :
    Ok(v.s, <<v.v, l.v[2]>>)))))

visit_unary_expr(s, expr, idents) ==
    Then(visit_expr_node(s, expr.expr, idents), LAMBDA r :
    IF expr.op = "Neg"
    THEN Then(insert_inst(r.s, BinaryInst(Imm, r.v[1], r.v[2])), LAMBDA v :
         Ok(v.s, <<v.v, r.v[2]>>))
    ELSE r)

\* the expression is lowered by the code as it is, where the read of a local
\* panics
Do_visit_binary_expr ==
    \E expr \in BinaryExprs :
        \E r \in {visit_binary_expr(St, expr, FALSE)} :
            /\ Commit(r.s)
            /\ last' = Call("visit_binary_expr", r.ok, expr, FALSE, r.v)

\* the expression is lowered with the read of a local in place
Do_visit_binary_expr_idents ==
    \E expr \in BinaryExprs :
        \E r \in {visit_binary_expr(St, expr, TRUE)} :
            /\ Commit(r.s)
            /\ last' = Call("visit_binary_expr", r.ok, expr, TRUE, r.v)

\* one expression is lowered, at any place of a block that earlier statements
\* have filled
NextExpr ==
    /\ last.op # "visit_binary_expr"
    /\ \/ Do_insert_after_current_place(MaxExprSize)
       \/ Do_insert_before_current_place(MaxExprSize)
       \/ Do_set_position_at_instruction
       \/ Do_visit_binary_expr
       \/ Do_visit_binary_expr_idents

SpecExpr == InitEditor /\ [][NextExpr]_vars

\* ------------------------------------------------------------------------
\* Claims on the lowering of expressions
\* ------------------------------------------------------------------------
RECURSIVE NumInsts(_)
RECURSIVE TypeOf(_)
RECURSIVE WellTyped(_)

\* the instructions an expression needs: one for each binary operation and
\* each unary minus
NumInsts(e) ==
    CASE e.node = "Binary" -> NumInsts(e.lhs) + NumInsts(e.rhs) + 1
      [] e.node = "Unary" -> NumInsts(e.expr) + (IF e.op = "Neg" THEN 1 ELSE 0)
      [] OTHER -> 0

\* the type of an expression: that of its left operand
TypeOf(e) ==
    CASE e.node = "Binary" -> TypeOf(e.lhs)
      [] e.node = "Unary" -> TypeOf(e.expr)
      [] e.node = "Ident" -> e.ty
      [] OTHER -> "Int"

\* the operands of every binary operation of e have one type
WellTyped(e) ==
    CASE e.node = "Binary" ->
             WellTyped(e.lhs) /\ WellTyped(e.rhs) /\ TypeOf(e.lhs) = TypeOf(e.rhs)
      [] e.node = "Unary" -> WellTyped(e.expr)
      [] OTHER -> TRUE

\* the value of e when its instructions are first, first + 1, ...: the last of
\* them, or an immediate, or the value of a local
RECURSIVE ValueOf(_, _)
ValueOf(e, first) ==
    CASE e.node = "Literal" -> Imm
      [] e.node = "Ident" -> VarValue
      [] e.node = "Unary" /\ e.op = "Pos" -> ValueOf(e.expr, first)
      [] OTHER -> first + NumInsts(e) - 1

\* the chain c with the instructions q put after x (c is empty when x is None)
PutAfter(c, x, q) ==
    IF x = None THEN q
    ELSE UpTo(c, x) \o q \o SubSeq(c, Len(UpTo(c, x)) + 1, Len(c))

\* C26: lowering a binary expression whose operands are lowered without error
\* or panic and have different types returns TypeMismatch { expected: type of the left
\* operand, found: type of the right operand } and inserts no Binary for the
\* expression; when the types are equal, one Binary is inserted after the
\* cursor, after the instructions of the left operand and then those of the
\* right operand, its operands being their values and its type the type of
\* the left operand.
C26_BinaryExpr ==
    [][last'.op = "visit_binary_expr" =>
          LET e == last'.a
              n == inst_slots
              nl == NumInsts(e.lhs)
              nr == NumInsts(e.rhs)
              tlhs == TypeOf(e.lhs)
              trhs == TypeOf(e.rhs)
              added == IF tlhs = trhs THEN nl + nr + 1 ELSE nl + nr
          IN  (WellTyped(e.lhs) /\ WellTyped(e.rhs) /\ ~panicked([stack |-> stack'])) =>
                  /\ inst_slots' = n + added
                  /\ DOMAIN kinds' = (n + 1)..(n + added)
                  /\ Chain([ia |-> instructions_arena', ba |-> basic_block_arena',
                            n |-> inst_slots'], current_bb)
                         = PutAfter(Chain(St, current_bb), current_idx,
                                    [k \in 1..added |-> n + k])
                  /\ IF tlhs # trhs
                     THEN /\ ~last'.ok
                          /\ last'.r = TypeMismatch(tlhs, trhs)
                     ELSE /\ last'.ok
                          /\ last'.r = <<n + added, tlhs>>
                          /\ current_idx' = n + added
                          /\ kinds'[n + added]
                                 = BinaryInst(ValueOf(e.lhs, n + 1),
                                              ValueOf(e.rhs, n + nl + 1), tlhs)]_vars

\* a binary expression both operands of which emit an instruction has failed
\* with TypeMismatch, the cursor having been in the middle of a block
C26_Witness ==
    /\ last.op = "visit_binary_expr" /\ ~last.ok /\ ~panicked(St)
    /\ NumInsts(last.a.lhs) = 1 /\ NumInsts(last.a.rhs) = 1
    /\ last.r = TypeMismatch("Int", "Unit")
    /\ Len(Chain(St, current_bb)) = 4
    /\ Chain(St, current_bb)[1] < Chain(St, current_bb)[2]
    /\ Chain(St, current_bb)[4] < Chain(St, current_bb)[3]

\* ------------------------------------------------------------------------
\* Claim on the jumps the front-end driver leaves in the blocks
\* ------------------------------------------------------------------------
\* the kinds of the branches of a block, in order
JumpKinds(bb) ==
    [k \in DOMAIN basic_block_arena[bb].jumps |-> basic_block_arena[bb].jumps[k].kind]

\* the driver is between two statements, or has lowered the function
AtStmtBoundary == stack = <<>> \/ Running("block") \/ Running("func")

\* C27: while the driver lowers nested if, while and return statements, the
\* jumps of every block are empty, [Return], [Jump], [CondJump, Jump] or, until
\* the if statement has passed its if block, [CondJump]; once the function is
\* lowered no block has a CondJump that is not followed by a Jump; between two
\* statements the jumps of the current block are empty; and no step changes
\* the jumps of a block that hold a Return.
C27_JumpShapes ==
    /\ [](~panicked(St) =>
             /\ \A bb \in DOMAIN basic_block_arena :
                    /\ JumpKinds(bb) \in {<<>>, <<"Return">>, <<"Jump">>,
                                          <<"CondJump">>, <<"CondJump", "Jump">>}
                    /\ stack = <<>> => JumpKinds(bb) # <<"CondJump">>
             /\ AtStmtBoundary => basic_block_arena[current_bb].jumps = <<>>)
    /\ [][\A bb \in DOMAIN basic_block_arena :
              (\E k \in DOMAIN JumpKinds(bb) : JumpKinds(bb)[k] = "Return")
                  => basic_block_arena'[bb].jumps = basic_block_arena[bb].jumps]_vars

\* the function is lowered; its blocks show all four shapes, two of them end
\* in a CondJump and a Jump, and the current block is empty
C27_Witness ==
    /\ stack = <<>>
    /\ \A ks \in {<<>>, <<"Return">>, <<"Jump">>, <<"CondJump", "Jump">>} :
           \E bb \in DOMAIN basic_block_arena : JumpKinds(bb) = ks
    /\ Cardinality({bb \in DOMAIN basic_block_arena :
                        JumpKinds(bb) = <<"CondJump", "Jump">>}) >= 2
    /\ basic_block_arena[current_bb].jumps = <<>>

\* ------------------------------------------------------------------------
\* Branches of blocks that hold instructions
\* ------------------------------------------------------------------------
NextFrame ==
    \/ Do_new_bb(MaxFrameSize)
    \/ Do_insert_at_end_of(MaxFrameSize)
    \/ Do_add_branch(MaxFrameSize)
    \/ Do_modify_branch(MaxFrameSize)

SpecFrame == InitEditor /\ [][NextFrame]_vars

\* the successors of block c after the step
succ_of_bb_after(c) == succ_of_bb([edges |-> graph_edges', out |-> graph_out'], c)

\* C28: modify_branch(bb, f) and add_branch(branch, bb) leave, for every block
\* c other than bb, c.jumps and the multiset succ_of_bb(c) as they were, create
\* and remove no block, change no instruction and no block's head or tail, and
\* leave the cursor where it was, whatever edges earlier calls have added and
\* removed.
C28_BranchFrame ==
    [][last'.op \in {"modify_branch", "add_branch"} =>
          /\ DOMAIN basic_block_arena' = DOMAIN basic_block_arena
          /\ \A c \in DOMAIN basic_block_arena :
                 /\ basic_block_arena'[c].head = basic_block_arena[c].head
                 /\ basic_block_arena'[c].tail = basic_block_arena[c].tail
                 /\ c # last'.a =>
                        /\ basic_block_arena'[c].jumps = basic_block_arena[c].jumps
                        /\ \A t \in DOMAIN basic_block_arena :
                               Count(succ_of_bb_after(c), t) = Count(succ_of_bb(St, c), t)
          /\ UNCHANGED <<instructions_arena, inst_slots, current_bb, current_idx>>]_vars

\* modify_branch has emptied a block while another block has two jumps and
\* two successor edges, whose indices show that a removal has renumbered them
C28_Witness ==
    /\ last.op = "modify_branch" /\ last.ok
    /\ basic_block_arena[last.a].jumps = <<>>
    /\ \E c \in DOMAIN basic_block_arena :
           /\ c # last.a
           /\ Len(basic_block_arena[c].jumps) = 2
           /\ graph_out[c] = <<1, 2>>

====
